---- MODULE Spec2Model ----
(***************************************************************************)
(* The NNOG sales-tax refund report generator.                             *)
(*                                                                         *)
(* Two programs of the repository build the monthly report:                *)
(*   - process_sales_tax, the dataframe pipeline of "NNOG Sales Tax Refund *)
(*     v0.9.py" (src/unnamed/part_000, lines 457-930), called "v09" here;  *)
(*   - run_processor, the SQL pipeline of "NNOG Sales Tax Refund.py"       *)
(*     (src/python), called "sql" here.                                    *)
(* A run is: load the two input files, preprocess, then one loop           *)
(* iteration per requested month, each of which skips or writes a file.    *)
(*                                                                         *)
(* Text (invoice numbers, vendor names, image file names) is a sequence of *)
(* one-character strings, so that upper(), strip(), startswith() and the   *)
(* substring test are computed as Python computes them.                    *)
(***************************************************************************)
EXTENDS Integers, Sequences, FiniteSets, TLC

VARIABLES
    month_in,       \* the month specification as typed
    year_in,        \* the year as typed
    program,        \* "v09", "draft" or "sql": which script is being run
    jib_file,       \* the ledger extract on disk
    ir_file,        \* the image cross-reference on disk
    months,         \* the list of months to process (the result of parse_months)
    year,           \* the requested year
    pc,             \* "main", "start", "loop", "done", "aborted", "crashed",
                    \* "prompt" or "exit"
    df_jib,         \* the preprocessed ledger table
    df_ir_grouped,  \* the image table after de-duplication
    idx,            \* number of months of the list already handled
    files,          \* the output directory: file name -> report rows
    log,            \* what each handled month did: <<month, "skip"|"write"|"error">>
    headers         \* file name -> the header row process_sales_tax wrote to the sheet

vars == <<month_in, year_in, program, jib_file, ir_file, months, year, pc, df_jib, df_ir_grouped,
          idx, files, log, headers>>

----------------------------------------------------------------------------
(* Text *)

\* The characters that occur, in code-point order (Python compares strings
\* by code point; the capitals precede "_", which precedes the small letters).
Alphabet ==
    <<" ", "#", "$", "&", "'", "(", ")", "+", ",", "-", ".",
      "0", "1", "2", "3", "4", "5", "6", "7", "8", "9",
      "A", "B", "C", "D", "E", "F", "G", "H", "I", "J", "K", "L", "M",
      "N", "O", "P", "Q", "R", "S", "T", "U", "V", "W", "X", "Y", "Z", "_",
      "a", "b", "c", "d", "e", "f", "g", "h", "i", "j", "k", "l", "m",
      "n", "o", "p", "q", "r", "s", "t", "u", "v", "w", "x", "y", "z">>

Chars == {Alphabet[i] : i \in 1..Len(Alphabet)}

Ord == [c \in Chars |-> CHOOSE i \in 1..Len(Alphabet) : Alphabet[i] = c]

\* str.upper() on one character
UpperChar(c) ==
    IF Ord[c] >= Ord["a"] /\ Ord[c] <= Ord["z"]
    THEN Alphabet[Ord[c] - (Ord["a"] - Ord["A"])]
    ELSE c

\* str.upper()
Upper(s) == [i \in 1..Len(s) |-> UpperChar(s[i])]

\* str.startswith(p)
StartsWith(s, p) == Len(s) >= Len(p) /\ SubSeq(s, 1, Len(p)) = p

\* p in s
Contains(s, p) ==
    \E i \in 0..(Len(s) - Len(p)) : SubSeq(s, i + 1, i + Len(p)) = p

\* str.strip(): leading and trailing blanks removed
RECURSIVE LStrip(_)
LStrip(s) == IF s # <<>> /\ Head(s) = " " THEN LStrip(Tail(s)) ELSE s

RECURSIVE RStrip(_)
RStrip(s) ==
    IF s # <<>> /\ s[Len(s)] = " " THEN RStrip(SubSeq(s, 1, Len(s) - 1)) ELSE s

Strip(s) == RStrip(LStrip(s))

\* s < t for Python strings
RECURSIVE StrLess(_, _)
StrLess(s, t) ==
    IF t = <<>> THEN FALSE
    ELSE IF s = <<>> THEN TRUE
    ELSE IF Head(s) = Head(t) THEN StrLess(Tail(s), Tail(t))
    ELSE Ord[Head(s)] < Ord[Head(t)]

\* str(n) for n >= 0
RECURSIVE Digits(_)
Digits(n) ==
    IF n < 10 THEN <<Alphabet[Ord["0"] + n]>>
    ELSE Digits(n \div 10) \o <<Alphabet[Ord["0"] + (n % 10)]>>

\* f"{n:0wd}" for n >= 0: left-padded with "0" to at least w characters
RECURSIVE ZeroPad(_, _)
ZeroPad(s, w) == IF Len(s) >= w THEN s ELSE ZeroPad(<<"0">> \o s, w)

StrCmp(s, t) == IF s = t THEN 0 ELSE IF StrLess(s, t) THEN -1 ELSE 1

IntCmp(a, b) == IF a = b THEN 0 ELSE IF a < b THEN -1 ELSE 1

Abs(n) == IF n < 0 THEN -n ELSE n

----------------------------------------------------------------------------
(* Cells and tables *)

\* A cell is a tagged tuple: <<"num", n>>, <<"nan">>, <<"str", text>>,
\* <<"date", month, year>>, <<"NaT">>, <<"int", 0>> (the zero sentinel),
\* <<"link", base, year, quarter, file>> (a HYPERLINK formula).
NaN == <<"nan">>
NaT == <<"NaT">>
Num(n) == <<"num", n>>
Str(s) == <<"str", s>>
Date(m, y) == <<"date", m, y>>
Zero == <<"int", 0>>

IsNa(c) == c[1] \in {"nan", "NaT"}

\* The normalised column names of the ledger the pipeline looks for.
DateCol == "txn_inv_date"
GrossCol == "txn_gross_amt"
InvCol == "txn_invoice_no"
VendorCol == "name_1"
PropertyCol == "property"
BillingCol == "billing_cat"
AllCols == {DateCol, GrossCol, InvCol, VendorCol, PropertyCol, BillingCol}

\* os.path.splitext(path)[1].lower() is one of these
LowerChar(c) ==
    IF Ord[c] >= Ord["A"] /\ Ord[c] <= Ord["Z"]
    THEN Alphabet[Ord[c] + (Ord["a"] - Ord["A"])]
    ELSE c

Lower(s) == [i \in 1..Len(s) |-> LowerChar(s[i])]

SupportedExt == {<<".", "c", "s", "v">>, <<".", "x", "l", "s", "x">>, <<".", "x", "l", "s">>, <<".", "x", "l", "s", "m">>}

\* load_data succeeds: the path exists and the extension is recognised
LoadOk(f) == f.exists /\ Lower(f.ext) \in SupportedExt

DollarThreshold == 2000
VendorThreshold == 3500

excluded_vendors ==
    { <<"J", " ", "R", " ", "C", "O", "N", "S", "T", "R", "U", "C", "T", "I", "O", "N">>,
      <<"M", "O", "N", "T", "E", "Z", "U", "M", "A", " ", "W", "E", "L", "L", " ", "S", "E", "R", "V", "I", "C", "E">>,
      <<"M", "A", "R", "Y", "B", "O", "Y">>,
      <<"N", "E", "L", "S", "O", "N", "'", "S", " ", "W", "E", "L", "D", "I", "N", "G", " ", "&", " ", "R", "O", "U", "S", "T", "A", "B", "O", "U", "T">>,
      <<"3", "G", " ", "C", "O", "N", "S", "U", "L", "T", "I", "N", "G">> }

GJ == <<"G", "J">>
PE == <<"P", "E">>

----------------------------------------------------------------------------
(* Preprocessing (process_sales_tax, sections 2 and 3) *)

\* str.replace(r'\.0$', ''): one trailing ".0" removed
RemoveDotZero(s) ==
    IF Len(s) >= 2 /\ SubSeq(s, Len(s) - 1, Len(s)) = <<".", "0">>
    THEN SubSeq(s, 1, Len(s) - 2)
    ELSE s

\* .astype(str).str.strip().str.replace(r'\.0$', '', regex=True)
NormInv(s) == RemoveDotZero(Strip(s))

\* x.replace('(', '-').replace(')', '').replace(',', '').replace('$', '')
RECURSIVE CurrencyText(_)
CurrencyText(s) ==
    IF s = <<>> THEN <<>>
    ELSE IF Head(s) = "(" THEN <<"-">> \o CurrencyText(Tail(s))
    ELSE IF Head(s) \in {")", ",", "$"} THEN CurrencyText(Tail(s))
    ELSE <<Head(s)>> \o CurrencyText(Tail(s))

IsDigit(c) == Ord[c] >= Ord["0"] /\ Ord[c] <= Ord["9"]

RECURSIVE DigitsValue(_)
DigitsValue(s) ==
    IF s = <<>> THEN 0
    ELSE 10 * DigitsValue(SubSeq(s, 1, Len(s) - 1)) + (Ord[s[Len(s)]] - Ord["0"])

\* pd.to_numeric(text, errors='coerce') on whole numbers: blanks around the
\* number are ignored, one leading "-" is a sign, anything else is NaN
ToNumeric(s) ==
    LET t == Strip(s)
        neg == t # <<>> /\ Head(t) = "-"
        d == IF neg THEN Tail(t) ELSE t
    IN  IF d # <<>> /\ \A i \in 1..Len(d) : IsDigit(d[i])
        THEN Num(IF neg THEN -DigitsValue(d) ELSE DigitsValue(d))
        ELSE NaN

clean_currency(x) == IF x[1] = "str" THEN ToNumeric(CurrencyText(x[2])) ELSE x

\* pd.to_datetime(errors='coerce'): what is no date becomes NaT
ToDatetime(x) == IF x[1] = "date" THEN x ELSE NaT

RECURSIVE SelectRows(_, _)
\* the rows of table t whose index is in the set keep, in table order
SelectRows(t, keep) ==
    IF t = <<>> THEN <<>>
    ELSE LET n == Len(t)
             front == SelectRows(SubSeq(t, 1, n - 1), keep)
         IN IF n \in keep THEN Append(front, t[n]) ELSE front

\* Section 2: the ledger after date parsing, currency cleaning, dropna on the
\* gross amount and invoice-number normalisation; each step only when its
\* column exists.
PreprocessJib(f) ==
    LET c == f.cols
        r1 == [i \in 1..Len(f.rows) |->
                 IF DateCol \in c
                 THEN [f.rows[i] EXCEPT !.date = ToDatetime(@)]
                 ELSE f.rows[i]]
        r2 == [i \in 1..Len(r1) |->
                 IF GrossCol \in c
                 THEN [r1[i] EXCEPT !.gross = clean_currency(@)]
                 ELSE r1[i]]
        r3 == IF GrossCol \in c
              THEN SelectRows(r2, {i \in 1..Len(r2) : ~IsNa(r2[i].gross)})
              ELSE r2
    IN  [i \in 1..Len(r3) |->
           IF InvCol \in c THEN [r3[i] EXCEPT !.inv = NormInv(@)] ELSE r3[i]]

RECURSIVE SortTexts(_)
\* the texts of a set in ascending order
SortTexts(S) ==
    IF S = {} THEN <<>>
    ELSE LET m == CHOOSE x \in S : \A y \in S : ~StrLess(y, x)
         IN <<m>> \o SortTexts(S \ {m})

\* the value of the group's first row, null or not
FirstNonNull_FirstRow(rows, k) == rows[1].imgs[k]

\* GroupBy.first() of one column: the first non-null value among the rows
FirstNonNull(rows, k) ==
    LET nn == {i \in 1..Len(rows) : ~IsNa(rows[i].imgs[k])}
    IN  IF nn = {} THEN NaN
        ELSE rows[CHOOSE i \in nn : \A j \in nn : i <= j].imgs[k]

\* the cross-reference with normalised invoice numbers, not grouped
GroupIr_Ungrouped(f) ==
    IF ~f.has_inv THEN <<>>
    ELSE [i \in 1..Len(f.rows) |->
            [inv |-> NormInv(f.rows[i].inv),
             imgs |-> SubSeq(f.rows[i].imgs, 1, f.nimg)]]

\* Section 3: df_ir.groupby(inv_col_ir)[img_cols].first().reset_index(), on
\* normalised invoice numbers; an empty table when the file has no
\* invoice-number column.
GroupIr(f) ==
    IF ~f.has_inv THEN <<>>
    ELSE LET rows == [i \in 1..Len(f.rows) |->
                        [f.rows[i] EXCEPT !.inv = NormInv(@)]]
             keys == SortTexts({rows[i].inv : i \in 1..Len(rows)})
         IN [g \in 1..Len(keys) |->
               LET mine == SelectRows(rows, {i \in 1..Len(rows) : rows[i].inv = keys[g]})
               IN [inv |-> keys[g],
                   imgs |-> [k \in 1..f.nimg |-> FirstNonNull(mine, k)]]]

----------------------------------------------------------------------------
(* The per-month pipeline of process_sales_tax *)

\* Filter by date: month and year must both match; no filter without the column
DateMask(r, month, yr) ==
    r.date[1] = "date" /\ r.date[2] = month /\ r.date[3] = yr

\* the date filter applied whether or not the column was found
FilterByDate_Always(df, c, month, yr) ==
    SelectRows(df, {i \in 1..Len(df) : DateMask(df[i], month, yr)})

FilterByDate(df, c, month, yr) ==
    IF DateCol \in c
    THEN SelectRows(df, {i \in 1..Len(df) : DateMask(df[i], month, yr)})
    ELSE df

\* gross ascending
GrossDescCmp_Ascending(x, y) ==
    IF IsNa(x) \/ IsNa(y)
    THEN IntCmp(IF IsNa(x) THEN 1 ELSE 0, IF IsNa(y) THEN 1 ELSE 0)
    ELSE IntCmp(x[2], y[2])

\* gross descending; sort_values puts NaN last whatever the direction
GrossDescCmp(x, y) ==
    IF IsNa(x) \/ IsNa(y)
    THEN IntCmp(IF IsNa(x) THEN 1 ELSE 0, IF IsNa(y) THEN 1 ELSE 0)
    ELSE IntCmp(y[2], x[2])

\* sort_cols / sort_asc: vendor, invoice, property, billing ascending, then
\* gross descending, each only when the column exists
SortColsCmp(c, a, b) ==
    LET k1 == IF VendorCol \in c THEN StrCmp(a.vendor, b.vendor) ELSE 0
        k2 == IF InvCol \in c THEN StrCmp(a.inv, b.inv) ELSE 0
        k3 == IF PropertyCol \in c THEN StrCmp(a.prop, b.prop) ELSE 0
        k4 == IF BillingCol \in c THEN StrCmp(a.bill, b.bill) ELSE 0
        k5 == IF GrossCol \in c THEN GrossDescCmp(a.gross, b.gross) ELSE 0
    IN  IF k1 # 0 THEN k1 ELSE IF k2 # 0 THEN k2 ELSE IF k3 # 0 THEN k3
        ELSE IF k4 # 0 THEN k4 ELSE k5

\* final_sort / final_asc: Inv_Total descending, then sort_cols
FinalSortCmp(c, a, b) ==
    IF a.Inv_Total # b.Inv_Total
    THEN IntCmp(b.Inv_Total, a.Inv_Total)
    ELSE SortColsCmp(c, a, b)

RECURSIVE SqlReplace(_)
\* REPLACE(REPLACE(REPLACE(txn_gross_amt, '(', '-'), ')', ''), ',', '')
SqlReplace(s) ==
    IF s = <<>> THEN <<>>
    ELSE IF Head(s) = "(" THEN <<"-">> \o SqlReplace(Tail(s))
    ELSE IF Head(s) \in {")", ","} THEN SqlReplace(Tail(s))
    ELSE <<Head(s)>> \o SqlReplace(Tail(s))

RECURSIVE DigitPrefix(_)
DigitPrefix(s) ==
    IF s # <<>> /\ IsDigit(Head(s)) THEN <<Head(s)>> \o DigitPrefix(Tail(s)) ELSE <<>>

\* CAST(text AS NUMERIC) on whole numbers: the longest numeric prefix after
\* leading blanks, 0 when there is none
SqlCast(s) ==
    LET t == LStrip(s)
        neg == t # <<>> /\ Head(t) = "-"
        d == DigitPrefix(IF neg THEN Tail(t) ELSE t)
    IN  IF d = <<>> THEN 0
        ELSE IF neg THEN -DigitsValue(d) ELSE DigitsValue(d)

\* stage1: clean_gross; NULL stays NULL, the empty text becomes NULL
SqlCleanGross(x) ==
    IF x[1] # "str" THEN x
    ELSE IF SqlReplace(x[2]) = <<>> THEN NaN
    ELSE Num(SqlCast(SqlReplace(x[2])))

\* stage2/stage3 and the window ORDER BY name_1, txn_invoice_no leave the
\* rows of stage4 ordered by vendor, invoice, property, billing category and
\* clean_gross ascending, NULL first (SQLite's sorter keeps ties in order)
SqlGrossCmp(a, b) ==
    LET x == SqlCleanGross(a.gross)
        y == SqlCleanGross(b.gross)
    IN  IF IsNa(x) \/ IsNa(y)
        THEN IntCmp(IF IsNa(x) THEN 0 ELSE 1, IF IsNa(y) THEN 0 ELSE 1)
        ELSE IntCmp(x[2], y[2])

SqlOrderCmp(a, b) ==
    LET k1 == StrCmp(a.vendor, b.vendor)
        k2 == StrCmp(a.inv, b.inv)
        k3 == StrCmp(a.prop, b.prop)
        k4 == StrCmp(a.bill, b.bill)
    IN  IF k1 # 0 THEN k1 ELSE IF k2 # 0 THEN k2 ELSE IF k3 # 0 THEN k3
        ELSE IF k4 # 0 THEN k4 ELSE SqlGrossCmp(a, b)

RowCmp(c, mode, a, b) ==
    IF mode = "final" THEN FinalSortCmp(c, a, b)
    ELSE IF mode = "sql" THEN SqlOrderCmp(a, b)
    ELSE SortColsCmp(c, a, b)

RECURSIVE SortValues(_, _, _)
\* DataFrame.sort_values on several keys: a stable sort
SortValues(t, c, mode) ==
    IF t = <<>> THEN <<>>
    ELSE LET n == Len(t)
             done == SortValues(SubSeq(t, 1, n - 1), c, mode)
             k == Cardinality({i \in 1..Len(done) : RowCmp(c, mode, done[i], t[n]) <= 0})
         IN SubSeq(done, 1, k) \o <<t[n]>> \o SubSeq(done, k + 1, Len(done))

RECURSIVE SumGross(_)
\* sum() skips NaN
SumGross(t) ==
    IF t = <<>> THEN 0
    ELSE (IF IsNa(t[1].gross) THEN 0 ELSE t[1].gross[2]) + SumGross(Tail(t))

\* groupby(inv_col_jib)[gross_col].transform('sum')
GroupSum(t, inv) ==
    SumGross(SelectRows(t, {i \in 1..Len(t) : t[i].inv = inv}))

HasTotal(c) == InvCol \in c /\ GrossCol \in c

WithTotal(r, total) ==
    [inv |-> r.inv, vendor |-> r.vendor, prop |-> r.prop, bill |-> r.bill,
     gross |-> r.gross, date |-> r.date, Inv_Total |-> total]

\* df_month['Inv_Total'] (0 stands for the absent column)
AddInvTotal(t, c) ==
    [i \in 1..Len(t) |->
       WithTotal(t[i], IF HasTotal(c) THEN GroupSum(t, t[i].inv) ELSE 0)]

\* (Inv_Total >= 2000) | (Inv_Total <= -2000)
MeetsThreshold(r) ==
    r.Inv_Total >= DollarThreshold \/ r.Inv_Total <= -DollarThreshold

ThresholdFilter(t, c) ==
    IF HasTotal(c)
    THEN SelectRows(t, {i \in 1..Len(t) : MeetsThreshold(t[i])})
    ELSE t

\* str.upper().str.startswith(('GJ', 'PE'))
IsGJPE(inv) == StartsWith(Upper(inv), GJ) \/ StartsWith(Upper(inv), PE)

DropGJPE(t, c) ==
    IF InvCol \in c
    THEN SelectRows(t, {i \in 1..Len(t) : ~IsGJPE(t[i].inv)})
    ELSE t

\* any(v in x for v in excluded_vendors) on the upper-cased vendor
IsExcludedVendor(vendor) ==
    \E v \in excluded_vendors : Contains(Upper(vendor), v)

\* mask_excl with the bound included: abs(Inv_Total) <= 3500
MaskExcl_Inclusive(r) == Abs(r.Inv_Total) <= VendorThreshold /\ IsExcludedVendor(r.vendor)

\* mask_excl
MaskExcl(r) == Abs(r.Inv_Total) < VendorThreshold /\ IsExcludedVendor(r.vendor)

DropLowValueVendors(t, c) ==
    IF VendorCol \in c /\ HasTotal(c)
    THEN SelectRows(t, {i \in 1..Len(t) : ~MaskExcl(t[i])})
    ELSE t

\* df_filtered at the emptiness test of line 715
Filtered(df_month, c) ==
    DropLowValueVendors(
        DropGJPE(ThresholdFilter(AddInvTotal(SortValues(df_month, c, "cols"), c), c), c), c)

\* Re-sort: Inv_Total desc first, when the column exists
Resort(t, c) == IF HasTotal(c) THEN SortValues(t, c, "final") ELSE t

\* ~duplicated(subset=[inv_col_jib], keep='first')
IsFirstRow(t, c, i) ==
    IF InvCol \in c THEN \A j \in 1..(i - 1) : t[j].inv # t[i].inv ELSE TRUE

\* the merge happens when the grouped image table is not empty
Merges(irg, c) == irg # <<>> /\ InvCol \in c

\* pd.merge(how='left'): the image cells of the invoice, NaN without a match
MergedImgs(irg, c, nimg, inv) ==
    IF ~Merges(irg, c) THEN <<>>
    ELSE IF \E g \in 1..Len(irg) : irg[g].inv = inv
         THEN irg[CHOOSE g \in 1..Len(irg) : irg[g].inv = inv].imgs
         ELSE [k \in 1..nimg |-> NaN]

q_map == <<1, 1, 1, 2, 2, 2, 3, 3, 3, 4, 4, 4>>

CurrentQ(month) == IF month \in 1..12 THEN q_map[month] ELSE 1
\* the next quarter without the wrap from 4 to 1
NextQ_NoWrap(month) == CurrentQ(month) + 1

NextQ(month) == (CurrentQ(month) % 4) + 1
NextQYear(month, yr) == IF CurrentQ(month) < 4 THEN yr ELSE yr + 1

\* paths: the four (label, base path) pairs, as <<store, year, quarter>>
Paths(month, yr) ==
    << <<"Dropbox", yr, CurrentQ(month)>>,
       <<"Dropbox", NextQYear(month, yr), NextQ(month)>>,
       <<"F Drive", yr, CurrentQ(month)>>,
       <<"F Drive", NextQYear(month, yr), NextQ(month)>> >>

make_hyperlink(is_first_row, img_val, base_path) ==
    IF ~is_first_row THEN Zero
    ELSE IF IsNa(img_val) \/ Strip(img_val[2]) = <<>> THEN Zero
    ELSE <<"link", base_path[1], base_path[2], base_path[3], Strip(img_val[2])>>

MaxImgCols == 4

MinOf(a, b) == IF a < b THEN a ELSE b

\* (df[inv] != df[inv].shift()).cumsum(), or the row counter without the column
ForSeqNo(t, c, i) ==
    IF InvCol \in c
    THEN Cardinality({j \in 1..i : j = 1 \/ t[j].inv # t[j - 1].inv})
    ELSE i

\* f"{int(x):03d}"
SeqNoPad(n) == ZeroPad(Digits(n), 3)

PDF == <<".", "p", "d", "f">>

build_tax_comm_filename(is_first_row, seq_pad, month, yr) ==
    IF ~is_first_row THEN Zero
    ELSE Str(<<"S">> \o Digits(yr) \o ZeroPad(Digits(month), 2) \o <<"-">>
             \o seq_pad \o PDF)

\* the rows pd.merge(how='left') makes of one left row: one per matching
\* right row, or one with NaN image cells when no right row matches
MergeRow(r, first, irg, nimg) ==
    LET m == SelectRows(irg, {g \in 1..Len(irg) : irg[g].inv = r.inv})
    IN  IF m = <<>>
        THEN <<[row |-> r, first |-> first, imgs |-> [k \in 1..nimg |-> NaN]]>>
        ELSE [g \in 1..Len(m) |-> [row |-> r, first |-> first, imgs |-> m[g].imgs]]

RECURSIVE MergeFrom(_, _, _, _, _)
\* the merged rows of the left rows i..Len(t), in the order of the left keys
MergeFrom(t, c, irg, nimg, i) ==
    IF i > Len(t) THEN <<>>
    ELSE MergeRow(t[i], IsFirstRow(t, c, i), irg, nimg)
            \o MergeFrom(t, c, irg, nimg, i + 1)

\* df_merged: the left join with the grouped image table, or a copy of
\* df_filtered; is_first_row was set on df_filtered, before the merge
Merge(t, c, irg, nimg) ==
    IF Merges(irg, c) THEN MergeFrom(t, c, irg, nimg, 1)
    ELSE [i \in 1..Len(t) |->
            [row |-> t[i], first |-> IsFirstRow(t, c, i), imgs |-> <<>>]]

\* df_merged after sections 4-6: one report row per merged row
Enrich(t, c, irg, nimg, month, yr) ==
    LET mg == Merge(t, c, irg, nimg)
        left == [i \in 1..Len(mg) |-> mg[i].row]
    IN  [i \in 1..Len(mg) |->
           LET first == mg[i].first
               imgs == mg[i].imgs
               seq == ForSeqNo(left, c, i)
           IN [inv |-> left[i].inv, vendor |-> left[i].vendor, prop |-> left[i].prop,
               bill |-> left[i].bill, gross |-> left[i].gross, date |-> left[i].date,
               Inv_Total |-> left[i].Inv_Total,
               is_first_row |-> first,
               imgs |-> imgs,
               links |-> [k \in 1..MinOf(Len(imgs), MaxImgCols) |->
                            [p \in 1..4 |->
                               make_hyperlink(first, imgs[k], Paths(month, yr)[p])]],
               For_Seq_No |-> seq,
               Seq_No_Pad |-> SeqNoPad(seq),
               Tax_Comm_Image |-> build_tax_comm_filename(first, SeqNoPad(seq), month, yr)]]

\* One iteration of the month loop: "nodata" and "threshold" are the two
\* `continue` exits, "write" carries the rows written to the month's file.
ProcessMonth(df, c, irg, nimg, month, yr) ==
    LET df_month == FilterByDate(df, c, month, yr)
        df_filtered == Filtered(df_month, c)
    IN  IF df_month = <<>> THEN [out |-> "nodata", rows |-> <<>>]
        ELSE IF df_filtered = <<>> THEN [out |-> "threshold", rows |-> <<>>]
        ELSE [out |-> "write",
              rows |-> Enrich(Resort(df_filtered, c), c, irg, nimg, month, yr)]

SALES_TAX_XLSX == 
    <<" ", "S", "a", "l", "e", "s", " ", "T", "a", "x", " ", "-", " ", "N", "N", "O", "G", "C", " ", "P", "Y", " ", "d", "1", "-", "4", ".", "x", "l", "s", "x">>

\* the file name without the month
OutFilename_YearOnly(month, yr) ==
    Digits(yr) \o SALES_TAX_XLSX

\* f"{year} {month:02d} Sales Tax - NNOGC PY d1-4.xlsx"
OutFilename(month, yr) ==
    Digits(yr) \o <<" ">> \o ZeroPad(Digits(month), 2) \o SALES_TAX_XLSX

----------------------------------------------------------------------------
(* The first v0.9 script ("draft"): where its process_sales_tax differs *)

\* Section 2 of the draft: dropna on the gross amount comes BEFORE
\* clean_currency, so only cells that are empty in the source are dropped
DraftPreprocessJib(f) ==
    LET c == f.cols
        r1 == [i \in 1..Len(f.rows) |->
                 IF DateCol \in c
                 THEN [f.rows[i] EXCEPT !.date = ToDatetime(@)]
                 ELSE f.rows[i]]
        r2 == IF GrossCol \in c
              THEN SelectRows(r1, {i \in 1..Len(r1) : ~IsNa(r1[i].gross)})
              ELSE r1
        r3 == [i \in 1..Len(r2) |->
                 IF GrossCol \in c
                 THEN [r2[i] EXCEPT !.gross = clean_currency(@)]
                 ELSE r2[i]]
    IN  [i \in 1..Len(r3) |->
           IF InvCol \in c THEN [r3[i] EXCEPT !.inv = NormInv(@)] ELSE r3[i]]

\* next_q = current_q + 1 if current_q < 4 else 1
DraftNextQ(month) == IF CurrentQ(month) < 4 THEN CurrentQ(month) + 1 ELSE 1

\* path_current_q, path_next_q, f_path_current_q, f_path_next_q
DraftPaths(month, yr) ==
    << <<"Dropbox", yr, CurrentQ(month)>>,
       <<"Dropbox", NextQYear(month, yr), DraftNextQ(month)>>,
       <<"F Drive", yr, CurrentQ(month)>>,
       <<"F Drive", NextQYear(month, yr), DraftNextQ(month)>> >>

\* the image value goes into the formula as it is, blanks included
create_hyperlink_formula(is_first_row, img_val, path) ==
    IF ~is_first_row THEN Zero
    ELSE IF IsNa(img_val) \/ Strip(img_val[2]) = <<>> THEN Zero
    ELSE <<"link", path[1], path[2], path[3], img_val[2]>>

\* df_merged of the draft after its sections 7-9
DraftEnrich(t, c, irg, nimg, month, yr) ==
    [i \in 1..Len(t) |->
       LET first == IsFirstRow(t, c, i)
           imgs == MergedImgs(irg, c, nimg, t[i].inv)
           seq == ForSeqNo(t, c, i)
       IN [inv |-> t[i].inv, vendor |-> t[i].vendor, prop |-> t[i].prop,
           bill |-> t[i].bill, gross |-> t[i].gross, date |-> t[i].date,
           Inv_Total |-> t[i].Inv_Total,
           is_first_row |-> first,
           imgs |-> imgs,
           links |-> [k \in 1..MinOf(Len(imgs), MaxImgCols) |->
                        [p \in 1..4 |->
                           create_hyperlink_formula(first, imgs[k],
                                                    DraftPaths(month, yr)[p])]],
           For_Seq_No |-> seq,
           Seq_No_Pad |-> SeqNoPad(seq),
           Tax_Comm_Image |-> build_tax_comm_filename(first, SeqNoPad(seq), month, yr)]]

\* one iteration of the draft's month loop
DraftProcessMonth(df, c, irg, nimg, month, yr) ==
    LET df_month == FilterByDate(df, c, month, yr)
        df_filtered == Filtered(df_month, c)
    IN  IF df_month = <<>> THEN [out |-> "nodata", rows |-> <<>>]
        ELSE IF df_filtered = <<>> THEN [out |-> "threshold", rows |-> <<>>]
        ELSE [out |-> "write",
              rows |-> DraftEnrich(Resort(df_filtered, c), c, irg, nimg, month, yr)]

----------------------------------------------------------------------------
(* run_processor: the SQL pipeline of "NNOG Sales Tax Refund.py" *)

ExcelExt == {<<".", "x", "l", "s", "x">>, <<".", "x", "l", "s">>, <<".", "x", "l", "s", "m">>}

\* load_excel_smart opens the path as a workbook
LoadExcelOk(f) == f.exists /\ Lower(f.ext) \in ExcelExt

\* the statements name every ledger column and related_file_001..004
SqlColumnsExist(jf, irf) ==
    AllCols \subseteq jf.cols /\ irf.has_inv /\ irf.nimg >= MaxImgCols

\* stage1: WHERE CAST(strftime('%m', txn_inv_date) AS INT) = {month}
SqlDateMask(r, month) == r.date[1] = "date" /\ r.date[2] = month

Stage1(rows, month) ==
    SelectRows(rows, {i \in 1..Len(rows) : SqlDateMask(rows[i], month)})

RECURSIVE SumSet(_)
\* the sum of the last components of a set of tuples
SumSet(S) ==
    IF S = {} THEN 0
    ELSE LET x == CHOOSE y \in S : TRUE IN x[Len(x)] + SumSet(S \ {x})

\* stage2/stage3: the sum of clean_gross over the rows with row_id = 1, that
\* is over the distinct (vendor, property, billing_cat, clean_gross) of the
\* invoice; a NULL clean_gross adds nothing
SqlInvTotal(t, inv) ==
    SumSet({<<t[i].vendor, t[i].prop, t[i].bill, SqlCleanGross(t[i].gross)[2]>> :
            i \in {j \in 1..Len(t) :
                      t[j].inv = inv /\ ~IsNa(SqlCleanGross(t[j].gross))}})

\* Filtered: inv_total >= 2000 OR inv_total <= -2000
SqlFiltered(t) ==
    LET wt == [i \in 1..Len(t) |-> WithTotal(t[i], SqlInvTotal(t, t[i].inv))]
    IN  SelectRows(wt, {i \in 1..Len(wt) : MeetsThreshold(wt[i])})

\* DENSE_RANK() OVER(ORDER BY name_1, txn_invoice_no) on the ordered rows
DenseRank(t, i) ==
    Cardinality({<<t[j].vendor, t[j].inv>> : j \in 1..i})

\* LAG(for_sequence_no) IS NOT for_sequence_no: 'CHANGE'
SequenceChange(t, i) == i = 1 \/ DenseRank(t, i - 1) # DenseRank(t, i)

\* substr('000' || n, -3)
SqlSeqPad(n) ==
    LET x == <<"0", "0", "0">> \o Digits(n) IN SubSeq(x, Len(x) - 2, Len(x))

get_quarter_info(month, yr, offset) ==
    LET q == ((month - 1) \div 3) + 1 + offset
    IN  IF q > 4 THEN <<q - 4, yr + 1>> ELSE <<q, yr>>

SqlPaths(month, yr) ==
    LET cur == get_quarter_info(month, yr, 0)
        nxt == get_quarter_info(month, yr, 1)
    IN  << <<"Dropbox", cur[2], cur[1]>>, <<"Dropbox", nxt[2], nxt[1]>>,
           <<"F Drive", cur[2], cur[1]>>, <<"F Drive", nxt[2], nxt[1]>> >>

Blank == Str(<<>>)

\* CASE WHEN sequence_change_flag = 'CHANGE' AND related_file IS NOT NULL
SqlHyperlink(change, img_val, base_path) ==
    IF change /\ ~IsNa(img_val)
    THEN <<"link", base_path[1], base_path[2], base_path[3], img_val[2]>>
    ELSE Blank

\* the "Filename of Image for the UT Tax Comm." column
SqlTaxCommFilename(change, seq, month, yr) ==
    IF ~change THEN Str(<<"0">>)
    ELSE Str(<<"S">> \o Digits(yr) \o ZeroPad(Digits(month), 2) \o <<"-">>
             \o SqlSeqPad(seq) \o PDF)

\* final_report for one month; pick[inv] is the row of elk that GROUP BY
\* invoice_no keeps for the bare columns of that invoice
SqlReport(rows, ir_rows, pick, month, yr) ==
    LET t == SortValues(SqlFiltered(Stage1(rows, month)), AllCols, "sql")
    IN  [i \in 1..Len(t) |->
           LET change == SequenceChange(t, i)
               seq == DenseRank(t, i)
               imgs == IF t[i].inv \in DOMAIN pick
                       THEN SubSeq(ir_rows[pick[t[i].inv]].imgs, 1, MaxImgCols)
                       ELSE [k \in 1..MaxImgCols |-> NaN]
           IN [inv |-> t[i].inv, vendor |-> t[i].vendor, prop |-> t[i].prop,
               bill |-> t[i].bill, gross |-> t[i].gross, date |-> t[i].date,
               Inv_Total |-> t[i].Inv_Total,
               is_first_row |-> change,
               imgs |-> imgs,
               links |-> [k \in 1..MaxImgCols |->
                            [p \in 1..4 |->
                               SqlHyperlink(change, imgs[k], SqlPaths(month, yr)[p])]],
               For_Seq_No |-> seq,
               Seq_No_Pad |-> SqlSeqPad(seq),
               Tax_Comm_Image |-> SqlTaxCommFilename(change, seq, month, yr)]]

\* the choices GROUP BY invoice_no can make: one row of elk per invoice number
IrPicks(ir_rows) ==
    LET invs == {ir_rows[i].inv : i \in 1..Len(ir_rows)}
    IN  {f \in [invs -> 1..Len(ir_rows)] : \A v \in invs : ir_rows[f[v]].inv = v}

----------------------------------------------------------------------------
(* Reading the inputs: int() and the three parse_months *)

\* int(text) succeeds: blanks around the number are ignored, one leading "-"
\* is a sign, the rest is one or more digits
IsInt(s) ==
    LET t == Strip(s)
        d == IF t # <<>> /\ Head(t) = "-" THEN Tail(t) ELSE t
    IN  d # <<>> /\ \A i \in 1..Len(d) : IsDigit(d[i])

\* int(text), when it succeeds
IntOf(s) ==
    LET t == Strip(s)
    IN  IF Head(t) = "-" THEN -DigitsValue(Tail(t)) ELSE DigitsValue(t)

RECURSIVE Split(_, _)
\* str.split(sep) for a one-character separator
Split(s, sep) ==
    IF \A i \in 1..Len(s) : s[i] # sep THEN <<s>>
    ELSE LET k == CHOOSE i \in 1..Len(s) : s[i] = sep /\ \A j \in 1..(i - 1) : s[j] # sep
         IN <<SubSeq(s, 1, k - 1)>> \o Split(SubSeq(s, k + 1, Len(s)), sep)

\* list(range(start, end + 1))
RangeList(start, end) ==
    IF end < start THEN <<>> ELSE [i \in 1..(end - start + 1) |-> start + i - 1]

IsMonth(m) == 1 <= m /\ m <= 12

\* [m for m in months if 1 <= m <= 12]
InRange(l) == SelectSeq(l, IsMonth)

RECURSIVE Sorted(_)
\* sorted(list of integers)
Sorted(l) ==
    IF l = <<>> THEN <<>>
    ELSE LET n == Len(l)
             done == Sorted(SubSeq(l, 1, n - 1))
             k == Cardinality({i \in 1..Len(done) : done[i] <= l[n]})
         IN SubSeq(done, 1, k) \o <<l[n]>> \o SubSeq(done, k + 1, Len(done))

\* the comma branch and the single-number branch, shared by the three
\* versions: any int() that fails gives the default [1]
ListOrSingle(s) ==
    IF Contains(s, <<",">>)
    THEN LET parts == Split(s, ",")
         IN  IF \A i \in 1..Len(parts) : IsInt(parts[i])
             THEN [i \in 1..Len(parts) |-> IntOf(parts[i])]
             ELSE <<1>>
    ELSE IF IsInt(s) THEN <<IntOf(s)>> ELSE <<1>>

\* parse_months of the v0.9 script with logging: the range branch reads
\* parts[0] and parts[1] and ignores any further part
parse_months(month_input) ==
    LET s == Strip(month_input)
        months_ ==
            IF Contains(s, <<"-">>)
            THEN LET parts == Split(s, "-")
                 IN  IF IsInt(parts[1]) /\ IsInt(parts[2])
                     THEN RangeList(IntOf(parts[1]), IntOf(parts[2]))
                     ELSE <<1>>
            ELSE ListOrSingle(s)
    IN  Sorted(InRange(months_))

\* the range branch `start, end = map(int, month_input.split('-'))`: every
\* part is converted and there must be exactly two
UnpackRange(s) ==
    LET parts == Split(s, "-")
    IN  IF Len(parts) = 2 /\ \A i \in 1..Len(parts) : IsInt(parts[i])
        THEN RangeList(IntOf(parts[1]), IntOf(parts[2]))
        ELSE <<1>>

\* parse_months of the first v0.9 script
draft_parse_months(month_input) ==
    LET s == Strip(month_input)
    IN  Sorted(InRange(IF Contains(s, <<"-">>) THEN UnpackRange(s) ELSE ListOrSingle(s)))

\* parse_months of the SQL script: no strip before the tests, no sort
sql_parse_months(month_input) ==
    InRange(IF Contains(month_input, <<"-">>)
            THEN UnpackRange(month_input)
            ELSE ListOrSingle(month_input))

----------------------------------------------------------------------------
(* The run as a state machine *)

----------------------------------------------------------------------------
(* The header row of the written sheet.  A header is a text, like every    *)
(* other string whose characters the code looks at.                        *)

\* "For_Seq_No"
FOR_SEQ_NO ==
    <<"F", "o", "r", "_", "S", "e", "q", "_", "N", "o">>

\* "Seq_No_Pad"
SEQ_NO_PAD ==
    <<"S", "e", "q", "_", "N", "o", "_", "P", "a", "d">>

\* "Tax_Comm_Image"
TAX_COMM_IMAGE ==
    <<"T", "a", "x", "_", "C", "o", "m", "m", "_", "I", "m", "a", "g", "e">>

\* "For Sequence #"
FOR_SEQUENCE_LABEL ==
    <<"F", "o", "r", " ", "S", "e", "q", "u", "e", "n", "c", "e", " ", "#">>

\* "Sequence #"
SEQUENCE_LABEL ==
    <<"S", "e", "q", "u", "e", "n", "c", "e", " ", "#">>

\* "Filename of Image for the UT Tax Comm."
TAX_COMM_LABEL ==
    <<"F", "i", "l", "e", "n", "a", "m", "e", " ", "o", "f", " ", "I", "m", "a", "g", "e", " ",
      "f", "o", "r", " ", "t", "h", "e", " ", "U", "T", " ", "T", "a", "x", " ", "C", "o", "m",
      "m", ".">>

\* "Txn Invoice No"
INVOICE_LABEL ==
    <<"T", "x", "n", " ", "I", "n", "v", "o", "i", "c", "e", " ", "N", "o">>

\* "Txn Gross Amt"
GROSS_LABEL ==
    <<"T", "x", "n", " ", "G", "r", "o", "s", "s", " ", "A", "m", "t">>

\* "Dropbox Link Image "
DROPBOX_LINK_IMAGE ==
    <<"D", "r", "o", "p", "b", "o", "x", " ", "L", "i", "n", "k", " ", "I", "m", "a", "g", "e",
      " ">>

\* "F Drive Link Image "
F_DRIVE_LINK_IMAGE ==
    <<"F", " ", "D", "r", "i", "v", "e", " ", "L", "i", "n", "k", " ", "I", "m", "a", "g", "e",
      " ">>

\* the name of each ledger column the scripts look for
ColumnName ==
    [c \in AllCols |->
       CASE c = DateCol -> <<"t", "x", "n", "_", "i", "n", "v", "_", "d", "a", "t", "e">>
         [] c = GrossCol -> <<"t", "x", "n", "_", "g", "r", "o", "s", "s", "_", "a", "m", "t">>
         [] c = InvCol -> <<"t", "x", "n", "_", "i", "n", "v", "o", "i", "c", "e", "_", "n", "o">>
         [] c = VendorCol -> <<"n", "a", "m", "e", "_", "1">>
         [] c = PropertyCol -> <<"p", "r", "o", "p", "e", "r", "t", "y">>
         [] c = BillingCol -> <<"b", "i", "l", "l", "i", "n", "g", "_", "c", "a", "t">>]

\* the ledger columns in the order of the file: the columns the scripts look
\* for, then the others
LedgerOrder == <<InvCol, DateCol, VendorCol, PropertyCol, BillingCol, GrossCol>>

\* df_jib.columns
LedgerColumns(jib) ==
    LET known == SelectSeq(LedgerOrder, LAMBDA c : c \in jib.cols)
    IN  [i \in 1..Len(known) |-> ColumnName[known[i]]] \o jib.extra

empty_tax_cols ==
    <<<<"U", "T", " ", "+", " ", "S", "J", " ", "C", "o", "m", "b", "i", "n", "e", "d", " ", "S", "a", "l", "e", "s", " ", "T", "a", "x">>,
      <<"U", "t", "a", "h", " ", "S", "t", "a", "t", "e", " ", "S", "a", "l", "e", "s", " ", "T", "a", "x">>,
      <<"S", "a", "n", " ", "J", "u", "a", "n", " ", "C", "o", "u", "n", "t", "y", " ", "S", "a", "l", "e", "s", " ", "T", "a", "x">>,
      <<"O", "t", "h", "e", "r", " ", "l", "o", "c", "a", "l", " ", "U", "t", "a", "h", " ", "t", "a", "x">>,
      <<"O", "t", "h", "e", "r", " ", "e", "n", "t", "i", "t", "y", " ", "c", "o", "l", "l", "e", "c", "t", "i", "n", "g", " ", "t", "a", "x">>,
      <<"S", "u", "m", " ", "o", "f", " ", "U", "T", " ", "T", "x", " ", "E", "x", "c", "l", " ", "C", "h", "r", "g", "d", " ", "b", "y", " ", "N", ".", "N", ".">>,
      <<"N", "N", "O", "G", "C", " ", "E", "n", "t", "i", "t", "y", " ", "T", "x", " ", "P", "d", " ", "A", "m", "t">>,
      <<"P", "o", "l", "e", "y", " ", "T", "e", "a", "m", " ", "N", "o", "t", "e", "s">>>>

\* the four link labels of image column i, in the order the columns are added
LinkLabels(i, current_q, next_q) ==
    <<DROPBOX_LINK_IMAGE \o Digits(i) \o <<" ", "Q">> \o Digits(current_q),
      DROPBOX_LINK_IMAGE \o Digits(i) \o <<" ", "Q">> \o Digits(next_q),
      F_DRIVE_LINK_IMAGE \o Digits(i) \o <<" ", "Q">> \o Digits(current_q),
      F_DRIVE_LINK_IMAGE \o Digits(i) \o <<" ", "Q">> \o Digits(next_q)>>

RECURSIVE link_cols(_, _, _)
\* the link columns of the first n image columns
link_cols(n, current_q, next_q) ==
    IF n = 0 THEN <<>>
    ELSE link_cols(n - 1, current_q, next_q) \o LinkLabels(n, current_q, next_q)

RECURSIVE Unseen(_, _)
\* `if c in df_merged.columns and c not in seen`: the first occurrence of each
Unseen(cols, seen) ==
    IF cols = <<>> THEN <<>>
    ELSE IF cols[1] \in seen THEN Unseen(Tail(cols), seen)
    ELSE <<cols[1]>> \o Unseen(Tail(cols), seen \cup {cols[1]})

\* final_cols_ordered
final_cols_ordered(jib, irg, nimg, current_q, next_q) ==
    LET out_cols == <<FOR_SEQ_NO, SEQ_NO_PAD>>
        original_cols == LedgerColumns(jib)
        n == IF Merges(irg, jib.cols) THEN MinOf(nimg, MaxImgCols) ELSE 0
    IN  Unseen(out_cols \o original_cols \o link_cols(n, current_q, next_q)
                   \o <<TAX_COMM_IMAGE>> \o empty_tax_cols, {})

\* df_final.rename(columns=rename_map): inv_col_jib and gross_col are renamed
\* when the ledger has them
rename_map(col) ==
    CASE col = FOR_SEQ_NO -> FOR_SEQUENCE_LABEL
      [] col = SEQ_NO_PAD -> SEQUENCE_LABEL
      [] col = TAX_COMM_IMAGE -> TAX_COMM_LABEL
      [] col = ColumnName[InvCol] -> INVOICE_LABEL
      [] col = ColumnName[GrossCol] -> GROSS_LABEL
      [] OTHER -> col

\* str.replace('_', ' ')
ReplaceUnderscores(s) == [i \in 1..Len(s) |-> IF s[i] = "_" THEN " " ELSE s[i]]

RECURSIVE SplitWords(_)
\* str.split(): the maximal runs of non-blank characters
SplitWords(s) ==
    IF s = <<>> THEN <<>>
    ELSE IF s[1] = " " THEN SplitWords(Tail(s))
    ELSE LET n == IF \E i \in 1..Len(s) : s[i] = " "
                  THEN (CHOOSE i \in 1..Len(s) :
                            s[i] = " " /\ \A j \in 1..(i - 1) : s[j] # " ") - 1
                  ELSE Len(s)
         IN  <<SubSeq(s, 1, n)>> \o SplitWords(SubSeq(s, n + 1, Len(s)))

\* str.capitalize(): the first character upper-cased, the others lower-cased
Capitalize(w) ==
    [i \in 1..Len(w) |-> IF i = 1 THEN UpperChar(w[i]) ELSE LowerChar(w[i])]

RECURSIVE JoinWords(_)
\* ' '.join(words)
JoinWords(words) ==
    IF words = <<>> THEN <<>>
    ELSE IF Len(words) = 1 THEN words[1]
    ELSE words[1] \o <<" ">> \o JoinWords(Tail(words))

stop == {<<"t", "h", "e">>, <<"f", "o", "r">>, <<"b", "y">>}

\* fmt_header of the logging script
fmt_header(col) ==
    LET words == SplitWords(ReplaceUnderscores(col))
    IN  JoinWords([i \in 1..Len(words) |->
                     IF i = 1 \/ Lower(words[i]) \notin stop
                     THEN Capitalize(words[i])
                     ELSE Lower(words[i])])

\* format_header of the draft: the second assignment of `stopwords` is the
\* one in force
format_header(col_name) ==
    LET s == ReplaceUnderscores(col_name)
        words == SplitWords(s)
        stopwords == stop
        res_words == [i \in 1..Len(words) |->
                        IF i = 1 \/ Lower(words[i]) \notin stopwords
                        THEN Capitalize(words[i])
                        ELSE Lower(words[i])]
    IN  JoinWords(res_words)

\* df_final.columns of the logging script when month's sheet is written
HeaderRow(jib, irg, nimg, month) ==
    LET cols == final_cols_ordered(jib, irg, nimg, CurrentQ(month), NextQ(month))
    IN  [i \in 1..Len(cols) |-> fmt_header(rename_map(cols[i]))]

\* df_final.columns of the draft when month's sheet is written
DraftHeaderRow(jib, irg, nimg, month) ==
    LET cols == final_cols_ordered(jib, irg, nimg, CurrentQ(month), DraftNextQ(month))
    IN  [i \in 1..Len(cols) |-> format_header(rename_map(cols[i]))]

CurrentMonth == months[idx + 1]

Put(f, name, rows) ==
    [n \in DOMAIN f \cup {name} |-> IF n = name THEN rows ELSE f[n]]

\* process_sales_tax, section 1: a load raises, the error is logged and the
\* function returns
V09LoadFails ==
    /\ program = "v09" /\ pc = "start"
    /\ ~(LoadOk(jib_file) /\ LoadOk(ir_file))
    /\ pc' = "aborted"
    /\ UNCHANGED <<headers, month_in, year_in, program, jib_file,
                   ir_file, months, year, df_jib,
                   df_ir_grouped, idx, files, log>>

\* sections 1-3 with the image cross-reference left unguarded
V09Load_LedgerOnly ==
    /\ program = "v09" /\ pc = "start"
    /\ LoadOk(jib_file)
    /\ df_jib' = PreprocessJib(jib_file)
    /\ df_ir_grouped' = GroupIr(ir_file)
    /\ idx' = 0
    /\ pc' = "loop"
    /\ UNCHANGED <<headers, month_in, year_in, program, jib_file,
                   ir_file, months, year, files, log>>

\* process_sales_tax, sections 1-3: both files load and are preprocessed
V09Load ==
    /\ program = "v09" /\ pc = "start"
    /\ LoadOk(jib_file) /\ LoadOk(ir_file)
    /\ df_jib' = PreprocessJib(jib_file)
    /\ df_ir_grouped' = GroupIr(ir_file)
    /\ idx' = 0
    /\ pc' = "loop"
    /\ UNCHANGED <<headers, month_in, year_in, program, jib_file,
                   ir_file, months, year, files, log>>

\* an iteration that filters the ledger table itself instead of a copy
V09Month_FiltersLedger ==
    /\ program = "v09" /\ pc = "loop" /\ idx < Len(months)
    /\ LET res == ProcessMonth(df_jib, jib_file.cols, df_ir_grouped,
                               ir_file.nimg, CurrentMonth, year)
       IN  IF res.out = "write"
           THEN /\ files' = Put(files, OutFilename(CurrentMonth, year), res.rows)
                /\ headers' = Put(headers, OutFilename(CurrentMonth, year),
                                   HeaderRow(jib_file, df_ir_grouped, ir_file.nimg,
                                             CurrentMonth))
                /\ log' = Append(log, <<CurrentMonth, "write">>)
           ELSE /\ files' = files
                /\ headers' = headers
                /\ log' = Append(log, <<CurrentMonth, "skip">>)
    /\ df_jib' = FilterByDate(df_jib, jib_file.cols, CurrentMonth, year)
    /\ idx' = idx + 1
    /\ UNCHANGED <<month_in, year_in, program, jib_file, ir_file, months, year, pc,
                   df_ir_grouped>>

\* an iteration that returns, instead of continuing, on an empty month
V09Month_ReturnsOnSkip ==
    /\ program = "v09" /\ pc = "loop" /\ idx < Len(months)
    /\ LET res == ProcessMonth(df_jib, jib_file.cols, df_ir_grouped,
                               ir_file.nimg, CurrentMonth, year)
       IN  IF res.out = "write"
           THEN /\ files' = Put(files, OutFilename(CurrentMonth, year), res.rows)
                /\ headers' = Put(headers, OutFilename(CurrentMonth, year),
                                   HeaderRow(jib_file, df_ir_grouped, ir_file.nimg,
                                             CurrentMonth))
                /\ log' = Append(log, <<CurrentMonth, "write">>)
                /\ pc' = pc
           ELSE /\ files' = files
                /\ headers' = headers
                /\ log' = Append(log, <<CurrentMonth, "skip">>)
                /\ pc' = "done"
    /\ idx' = idx + 1
    /\ UNCHANGED <<month_in, year_in, program, jib_file, ir_file, months, year, df_jib,
                   df_ir_grouped>>

\* one iteration of `for month in months`
V09Month ==
    /\ program = "v09" /\ pc = "loop" /\ idx < Len(months)
    /\ LET res == ProcessMonth(df_jib, jib_file.cols, df_ir_grouped,
                               ir_file.nimg, CurrentMonth, year)
       IN  IF res.out = "write"
           THEN /\ files' = Put(files, OutFilename(CurrentMonth, year), res.rows)
                /\ headers' = Put(headers, OutFilename(CurrentMonth, year),
                                   HeaderRow(jib_file, df_ir_grouped, ir_file.nimg,
                                             CurrentMonth))
                /\ log' = Append(log, <<CurrentMonth, "write">>)
           ELSE /\ files' = files
                /\ headers' = headers
                /\ log' = Append(log, <<CurrentMonth, "skip">>)
    /\ idx' = idx + 1
    /\ UNCHANGED <<month_in, year_in, program, jib_file, ir_file, months, year, pc, df_jib,
                   df_ir_grouped>>

\* "All months processed."
V09Finish ==
    /\ program = "v09" /\ pc = "loop" /\ idx = Len(months)
    /\ pc' = "done"
    /\ UNCHANGED <<headers, month_in, year_in, program, jib_file,
                   ir_file, months, year, df_jib,
                   df_ir_grouped, idx, files, log>>

\* draft process_sales_tax, section 1: a load raises, the error is printed
\* and the function returns
DraftLoadFails ==
    /\ program = "draft" /\ pc = "start"
    /\ ~(LoadOk(jib_file) /\ LoadOk(ir_file))
    /\ pc' = "aborted"
    /\ UNCHANGED <<headers, month_in, year_in, program, jib_file,
                   ir_file, months, year,
                   df_jib, df_ir_grouped, idx, files, log>>

\* draft process_sales_tax, sections 1-3
DraftLoad ==
    /\ program = "draft" /\ pc = "start"
    /\ LoadOk(jib_file) /\ LoadOk(ir_file)
    /\ df_jib' = DraftPreprocessJib(jib_file)
    /\ df_ir_grouped' = GroupIr(ir_file)
    /\ idx' = 0
    /\ pc' = "loop"
    /\ UNCHANGED <<headers, month_in, year_in, program, jib_file,
                   ir_file, months, year,
                   files, log>>

\* one iteration of the draft's `for month in months`
DraftMonth ==
    /\ program = "draft" /\ pc = "loop" /\ idx < Len(months)
    /\ LET res == DraftProcessMonth(df_jib, jib_file.cols, df_ir_grouped,
                                    ir_file.nimg, CurrentMonth, year)
       IN  IF res.out = "write"
           THEN /\ files' = Put(files, OutFilename(CurrentMonth, year), res.rows)
                /\ headers' = Put(headers, OutFilename(CurrentMonth, year),
                                   DraftHeaderRow(jib_file, df_ir_grouped,
                                                  ir_file.nimg, CurrentMonth))
                /\ log' = Append(log, <<CurrentMonth, "write">>)
           ELSE /\ files' = files
                /\ headers' = headers
                /\ log' = Append(log, <<CurrentMonth, "skip">>)
    /\ idx' = idx + 1
    /\ UNCHANGED <<month_in, year_in, program, jib_file, ir_file, months, year,
                   pc, df_jib, df_ir_grouped>>

\* the draft's loop ends and process_sales_tax returns
DraftFinish ==
    /\ program = "draft" /\ pc = "loop" /\ idx = Len(months)
    /\ pc' = "done"
    /\ UNCHANGED <<headers, month_in, year_in, program, jib_file,
                   ir_file, months, year,
                   df_jib, df_ir_grouped, idx, files, log>>

\* run_processor: load_excel_smart raises and nothing catches it
SqlLoadCrash ==
    /\ program = "sql" /\ pc = "start"
    /\ ~(LoadExcelOk(jib_file) /\ LoadExcelOk(ir_file))
    /\ pc' = "crashed"
    /\ UNCHANGED <<headers, month_in, year_in, program, jib_file,
                   ir_file, months, year, df_jib,
                   df_ir_grouped, idx, files, log>>

\* run_processor: both sheets load; only the column names are normalised
SqlLoad ==
    /\ program = "sql" /\ pc = "start"
    /\ LoadExcelOk(jib_file) /\ LoadExcelOk(ir_file)
    /\ df_jib' = jib_file.rows
    /\ df_ir_grouped' = ir_file.rows
    /\ idx' = 0
    /\ pc' = "loop"
    /\ UNCHANGED <<headers, month_in, year_in, program, jib_file,
                   ir_file, months, year, files, log>>

\* one iteration of run_processor's loop: the script runs and the report is
\* saved. There is no emptiness test: a report without rows is written too,
\* unless the writer rejects the NaN column width computed from an empty
\* column, which the `except` then prints.
SqlMonth ==
    /\ program = "sql" /\ pc = "loop" /\ idx < Len(months)
    /\ SqlColumnsExist(jib_file, ir_file)
    /\ \E pick \in IrPicks(df_ir_grouped) :
         LET rep == SqlReport(df_jib, df_ir_grouped, pick, CurrentMonth, year)
         IN  \/ /\ files' = Put(files, OutFilename(CurrentMonth, year), rep)
                /\ log' = Append(log, <<CurrentMonth, "write">>)
             \/ /\ rep = <<>>
                /\ files' = files
                /\ log' = Append(log, <<CurrentMonth, "error">>)
    /\ idx' = idx + 1
    /\ UNCHANGED <<headers, month_in, year_in, program, jib_file,
                   ir_file, months, year, pc, df_jib,
                   df_ir_grouped>>

\* one iteration of run_processor's loop: a statement names a column the
\* tables lack, the exception is printed and the loop goes on
SqlMonthError ==
    /\ program = "sql" /\ pc = "loop" /\ idx < Len(months)
    /\ ~SqlColumnsExist(jib_file, ir_file)
    /\ log' = Append(log, <<CurrentMonth, "error">>)
    /\ idx' = idx + 1
    /\ UNCHANGED <<headers, month_in, year_in, program, jib_file,
                   ir_file, months, year, pc, df_jib,
                   df_ir_grouped, files>>

\* "ALL DONE!"
SqlFinish ==
    /\ program = "sql" /\ pc = "loop" /\ idx = Len(months)
    /\ pc' = "done"
    /\ UNCHANGED <<headers, month_in, year_in, program, jib_file,
                   ir_file, months, year, df_jib,
                   df_ir_grouped, idx, files, log>>

Next ==
    \/ V09LoadFails
    \/ V09Load
    \/ V09Month
    \/ V09Finish
    \/ DraftLoadFails
    \/ DraftLoad
    \/ DraftMonth
    \/ DraftFinish
    \/ SqlLoadCrash
    \/ SqlLoad
    \/ SqlMonth
    \/ SqlMonthError
    \/ SqlFinish

----------------------------------------------------------------------------
(* The entry points: from the typed inputs to the end of the program *)

Traceback == <<0, "traceback">>
Message == <<0, "message">>

\* __main__ of the v0.9 script with logging, up to the call: the arguments
\* are evaluated in order, int(year_in) may raise ValueError, which the
\* `except Exception` logs with its traceback before the `finally` prompt
V09Main ==
    /\ program = "v09" /\ pc = "main"
    /\ IF IsInt(year_in)
       THEN /\ months' = parse_months(month_in)
            /\ year' = IntOf(year_in)
            /\ pc' = "start"
            /\ log' = log
       ELSE /\ log' = Append(log, Traceback)
            /\ pc' = "prompt"
            /\ UNCHANGED <<months, year>>
    /\ UNCHANGED <<headers, month_in, year_in, program, jib_file,
                   ir_file, df_jib,
                   df_ir_grouped, idx, files>>

\* the ExcelWriter cannot create the month's file (folder missing, file open
\* elsewhere): the exception leaves process_sales_tax and reaches __main__
V09WriteRaises ==
    /\ program = "v09" /\ pc = "loop" /\ idx < Len(months)
    /\ ProcessMonth(df_jib, jib_file.cols, df_ir_grouped, ir_file.nimg,
                    CurrentMonth, year).out = "write"
    /\ log' = Append(log, Traceback)
    /\ pc' = "prompt"
    /\ UNCHANGED <<headers, month_in, year_in, program, jib_file,
                   ir_file, months, year,
                   df_jib, df_ir_grouped, idx, files>>

\* process_sales_tax has returned: `finally` prints and waits for ENTER
V09Return ==
    /\ program = "v09" /\ pc \in {"done", "aborted"}
    /\ pc' = "prompt"
    /\ UNCHANGED <<headers, month_in, year_in, program, jib_file,
                   ir_file, months, year,
                   df_jib, df_ir_grouped, idx, files, log>>

\* __main__ of the draft: `except Exception as e` prints the message only,
\* and there is no `finally`
DraftMain ==
    /\ program = "draft" /\ pc = "main"
    /\ IF IsInt(year_in)
       THEN /\ months' = draft_parse_months(month_in)
            /\ year' = IntOf(year_in)
            /\ pc' = "start"
            /\ log' = log
       ELSE /\ log' = Append(log, Message)
            /\ pc' = "exit"
            /\ UNCHANGED <<months, year>>
    /\ UNCHANGED <<headers, month_in, year_in, program, jib_file,
                   ir_file, df_jib,
                   df_ir_grouped, idx, files>>

DraftWriteRaises ==
    /\ program = "draft" /\ pc = "loop" /\ idx < Len(months)
    /\ DraftProcessMonth(df_jib, jib_file.cols, df_ir_grouped, ir_file.nimg,
                         CurrentMonth, year).out = "write"
    /\ log' = Append(log, Message)
    /\ pc' = "exit"
    /\ UNCHANGED <<headers, month_in, year_in, program, jib_file,
                   ir_file, months, year,
                   df_jib, df_ir_grouped, idx, files>>

\* the draft's process_sales_tax has returned: the script ends
DraftReturn ==
    /\ program = "draft" /\ pc \in {"done", "aborted"}
    /\ pc' = "exit"
    /\ UNCHANGED <<headers, month_in, year_in, program, jib_file,
                   ir_file, months, year,
                   df_jib, df_ir_grouped, idx, files, log>>

\* run_processor, lines 70-72: int(input("Enter Year: ")) is not guarded
SqlMain ==
    /\ program = "sql" /\ pc = "main"
    /\ IF IsInt(year_in)
       THEN /\ months' = sql_parse_months(month_in)
            /\ year' = IntOf(year_in)
            /\ pc' = "start"
       ELSE /\ pc' = "crashed"
            /\ UNCHANGED <<months, year>>
    /\ UNCHANGED <<headers, month_in, year_in, program, jib_file,
                   ir_file, df_jib,
                   df_ir_grouped, idx, files, log>>

\* the three entry points alone: the inputs are read and converted
ParseNext == V09Main \/ DraftMain \/ SqlMain

\* a whole run, from the prompts for the inputs to the end of the program
MainNext ==
    \/ V09Main
    \/ DraftMain
    \/ SqlMain
    \/ Next
    \/ V09WriteRaises
    \/ V09Return
    \/ DraftWriteRaises
    \/ DraftReturn

----------------------------------------------------------------------------
(* Inputs *)

MaxRows == 3        \* ledger rows per input file
MaxIrRows == 2      \* image cross-reference rows per input file
MaxMonths == 2      \* months per run

A1 == <<"A", "1">>
B1 == <<"B", "1">>
A1_DOT0 == <<"A", "1", ".", "0">>
GJ4491 == <<"G", "J", "4", "4", "9", "1">>
gj1 == <<"g", "j", "1">>
Pe12 == <<"P", "e", "1", "2">>
G1 == <<"G", "1">>
ACME == <<"A", "C", "M", "E">>
BETA == <<"B", "E", "T", "A">>
ZED == <<"Z", "E", "D">>
MARYBOY == <<"M", "A", "R", "Y", "B", "O", "Y">>
MaryboyCo == <<"M", "a", "r", "y", "b", "o", "y", " ", "C", "o">>
P1 == <<"P", "1">>
BC == <<"B", "C">>
IMG_A == <<"a", ".", "p", "d", "f">>
IMG_B == <<"b", ".", "p", "d", "f">>
SPACE == <<" ">>
CSV == <<".", "c", "s", "v">>
XLSX == <<".", "x", "l", "s", "x">>
XLSX_UPPER == <<".", "X", "L", "S", "X">>
TXT == <<".", "t", "x", "t">>

LedgerRows(invs, vendors, grosses, dates) ==
    {[inv |-> i, vendor |-> v, prop |-> P1, bill |-> BC, gross |-> g, date |-> d] :
        i \in invs, v \in vendors, g \in grosses, d \in dates}

RECURSIVE SetToSeq(_)
SetToSeq(S) ==
    IF S = {} THEN <<>>
    ELSE LET x == CHOOSE y \in S : TRUE IN <<x>> \o SetToSeq(S \ {x})

\* The tables of at most n rows over the row set D. Rows are listed in one
\* fixed order: every sort of the pipelines is stable and its keys tell apart
\* all rows that differ in more than the date, so another file order only
\* permutes rows the reports show alike.
Tables(D, n) ==
    LET d == SetToSeq(D)
    IN  UNION {{[i \in 1..k |-> d[f[i]]] :
                  f \in {g \in [1..k -> 1..Len(d)] :
                           \A i \in 1..(k - 1) : g[i] <= g[i + 1]}} : k \in 0..n}

\* all tables of at most n rows over D, in every file order
OrderedTables(D, n) == UNION {[1..k -> D] : k \in 0..n}

\* ascending month lists, as parse_months returns them
MonthLists(M, n) ==
    UNION {{f \in [1..k -> M] : \A i \in 1..(k - 1) : f[i] <= f[i + 1]} : k \in 0..n}

JibFile(rows, cols) ==
    [exists |-> TRUE, ext |-> XLSX, cols |-> cols, extra |-> <<>>, rows |-> rows]

IrFile(rows, nimg) ==
    [exists |-> TRUE, ext |-> XLSX, has_inv |-> TRUE, nimg |-> nimg, rows |-> rows]

IrRow(inv, img1, img2) == [inv |-> inv, imgs |-> <<img1, img2, NaN, NaN>>]

\* one image row for invoice A1, four image columns
IrDefault == IrFile(<<IrRow(A1, Str(IMG_A), NaN)>>, 4)

Inputs(ledgers, cols, irs, mlists, years) ==
    {[jib |-> JibFile(l, c), ir |-> i, months |-> m, year |-> y] :
        l \in ledgers, c \in cols, i \in irs, m \in mlists, y \in years}

\* exact month and year: same month in other years, other months, no date
DateInputs ==
    Inputs(Tables(LedgerRows({A1}, {ACME}, {Num(1), Num(1999), Num(2000), Num(-2000)},
                             {Date(2, 2024), Date(2, 2025), Date(3, 2024), NaT}),
                  MaxRows),
           {AllCols}, {IrDefault}, {<<2>>}, {2024, 2025})

\* invoice-number prefixes in several letter cases
PrefixInputs ==
    Inputs(Tables(LedgerRows({GJ4491, gj1, Pe12, G1}, {ACME}, {Num(5000), Num(1000)},
                             {Date(2, 2024)}),
                  MaxRows),
           {AllCols}, {IrDefault}, {<<2>>}, {2024})

\* listed and unlisted vendors around both thresholds
VendorInputs ==
    Inputs(Tables(LedgerRows({A1, B1}, {ACME, MARYBOY, MaryboyCo},
                             {Num(1), Num(1999), Num(3499), Num(-2000)},
                             {Date(2, 2024)}),
                  MaxRows),
           {AllCols}, {IrDefault}, {<<2>>}, {2024})

\* several invoices, several vendors, equal and mixed-sign totals
SequenceInputs ==
    Inputs(Tables(LedgerRows({A1, B1}, {ACME, BETA, ZED},
                             {Num(1250), Num(2500), Num(-100)},
                             {Date(2, 2024)}),
                  MaxRows),
           {AllCols}, {IrDefault}, {<<2>>}, {2024})

ImgCells == {NaN, Str(SPACE), Str(IMG_A)}

\* image tables with missing, blank and repeated entries
ImageInputs ==
    Inputs(Tables(LedgerRows({A1, B1}, {ACME}, {Num(2000)}, {Date(2, 2024)}),
                  MaxRows),
           {AllCols},
           {IrFile(t, n) :
              t \in OrderedTables({IrRow(i, x, NaN) : i \in {A1, A1_DOT0}, x \in ImgCells}
                                    \cup {IrRow(A1, NaN, Str(IMG_B))},
                                  MaxIrRows),
              n \in {1, 4}},
           {<<2>>}, {2024})

\* several months in one run
RunInputs ==
    Inputs(Tables(LedgerRows({A1}, {ACME}, {Num(2000), Num(1)},
                             {Date(1, 2024), Date(2, 2024), Date(3, 2024)}),
                  MaxRows),
           {AllCols}, {IrFile(<<IrRow(A1, Str(IMG_A), NaN)>>, n) : n \in {1, 4}},
           MonthLists({1, 2, 3}, MaxMonths), {2024})

FileStates ==
    {[exists |-> e, ext |-> x] : e \in BOOLEAN, x \in {CSV, XLSX, XLSX_UPPER, TXT}}

\* each input file present or absent, with a recognised extension or not
LoadInputs ==
    {[jib |-> [exists |-> a.exists, ext |-> a.ext, cols |-> AllCols, extra |-> <<>>,
               rows |-> IF a.exists
                        THEN <<[inv |-> A1, vendor |-> ACME, prop |-> P1, bill |-> BC,
                                gross |-> Num(2500), date |-> Date(1, 2024)]>>
                        ELSE <<>>],
      ir |-> [exists |-> b.exists, ext |-> b.ext, has_inv |-> TRUE, nimg |-> 4,
              rows |-> IF b.exists THEN <<IrRow(A1, Str(IMG_A), NaN)>> ELSE <<>>],
      months |-> m, year |-> 2024] :
        a \in FileStates, b \in FileStates, m \in MonthLists({1, 2}, MaxMonths)}

AllInputs ==
    DateInputs \cup PrefixInputs \cup VendorInputs \cup SequenceInputs
        \cup ImageInputs \cup RunInputs \cup LoadInputs

RECURSIVE JoinDigits(_)
\* the month list as typed with commas: "1,2"
JoinDigits(l) ==
    IF Len(l) = 1 THEN Digits(l[1])
    ELSE Digits(l[1]) \o <<",">> \o JoinDigits(Tail(l))

\* a text that parses to the month list l; "0" for the empty list
MonthText(l) == IF l = <<>> THEN <<"0">> ELSE JoinDigits(l)

\* the state at the call of process_sales_tax (run_processor: before the
\* load), the typed inputs already converted
InitFor(progs, inputs) ==
    /\ program \in progs
    /\ \E in \in inputs :
         /\ jib_file = in.jib
         /\ ir_file = in.ir
         /\ months = in.months
         /\ year = in.year
         /\ month_in = MonthText(in.months)
         /\ year_in = Digits(in.year)
    /\ pc = "start"
    /\ df_jib = <<>>
    /\ df_ir_grouped = <<>>
    /\ idx = 0
    /\ files = <<>>
    /\ log = <<>>
    /\ headers = <<>>

InitWith(inputs) == InitFor({"v09", "sql"}, inputs)

\* what the draft is run on
DraftInputs == LoadInputs

Init == InitWith(AllInputs) \/ InitFor({"draft"}, DraftInputs)

Spec == Init /\ [][Next]_vars

RunInit == InitWith(RunInputs \cup LoadInputs) \/ InitFor({"draft"}, LoadInputs)

\* What a step of Next does to the position in the program: every action
\* leaves "start", or moves idx, or leaves "loop", and one of them is
\* enabled in every state at "start" or "loop".
Advance ==
    /\ pc \in {"start", "loop"}
    /\ pc' \in {"loop", "done", "aborted", "crashed"}
    /\ idx' \in 0..MaxMonths
    /\ <<pc', idx'>> # <<pc, idx>>

MaxInputLen == 5    \* characters of a typed month specification

\* all texts of at most n characters over the set C
Texts(C, n) == UNION {[1..k -> C] : k \in 0..n}

\* digits, the two separators, a blank and a letter
ParseChars == {"1", "2", "3", "-", ",", " ", "a"}

YEAR_2024 == <<"2", "0", "2", "4">>

\* the state before the inputs are converted
MainInitWith(progs, month_texts, year_texts, file_pairs) ==
    /\ program \in progs
    /\ month_in \in month_texts
    /\ year_in \in year_texts
    /\ \E fp \in file_pairs : jib_file = fp[1] /\ ir_file = fp[2]
    /\ months = <<>>
    /\ year = 0
    /\ pc = "main"
    /\ df_jib = <<>>
    /\ df_ir_grouped = <<>>
    /\ idx = 0
    /\ files = <<>>
    /\ log = <<>>
    /\ headers = <<>>

\* parse_months on every typed text of at most MaxInputLen characters
ParseInit ==
    MainInitWith({"v09", "draft", "sql"}, Texts(ParseChars, MaxInputLen),
                 {YEAR_2024}, {<<JibFile(<<>>, AllCols), IrDefault>>})

ParseSpec == ParseInit /\ [][ParseNext]_vars

YearTexts ==
    {YEAR_2024, <<>>, <<"2", "0", "2", "x">>, <<" ", "2", "0", "2", "4">>,
     <<"2", "0", ".", "5">>}

MonthTexts ==
    {<<"1">>, <<"1", "-", "2">>, <<"2", ",", "1">>, <<"a">>, <<>>, <<"1", "3">>}

\* the file states of LoadInputs with a ledger for months 1 and 2, and one
\* image file that lacks columns
MainFiles ==
    {<<[in.jib EXCEPT !.rows =
           IF in.jib.exists
           THEN @ \o <<[inv |-> B1, vendor |-> ACME, prop |-> P1, bill |-> BC,
                        gross |-> Num(2500), date |-> Date(2, 2024)]>>
           ELSE @],
       in.ir>> : in \in LoadInputs}
    \cup {<<JibFile(<<>>, AllCols), IrFile(<<>>, 1)>>}

MainInit ==
    MainInitWith({"v09", "draft", "sql"}, MonthTexts, YearTexts, MainFiles)

\* what a step of MainNext does to the position in the program
MainAdvance ==
    /\ pc \in {"main", "start", "loop", "done", "aborted"}
    /\ pc' \in {"start", "loop", "done", "aborted", "crashed", "prompt", "exit"}
    /\ idx' \in 0..12
    /\ <<pc', idx'>> # <<pc, idx>>

\* the interpreter executes the next statement until the program ends; the
\* SQL script ends at "done"
MainSpec ==
    MainInit /\ [][MainNext]_vars
        /\ WF_<<pc, idx>>(MainAdvance /\ (program = "sql" => pc # "done"))

\* The script is a plain sequential program: the interpreter executes the next
\* statement, so a run does not stop at "start" or inside the loop.
RunSpec == RunInit /\ [][Next]_vars /\ WF_<<pc, idx>>(Advance)

----------------------------------------------------------------------------
(* The reports, as the claims read them *)

Written(m) == OutFilename(m, year) \in DOMAIN files

Report(m) == files[OutFilename(m, year)]

Reports == {files[n] : n \in DOMAIN files}

\* the month has been handled by the loop
Handled(m) == \E k \in 1..idx : months[k] = m

\* the sum of the gross amounts of the rows of table t with invoice number v
RECURSIVE RowSum(_, _)
RowSum(t, v) ==
    IF t = <<>> THEN 0
    ELSE (IF t[1].inv = v /\ t[1].gross[1] = "num" THEN t[1].gross[2] ELSE 0)
         + RowSum(Tail(t), v)

\* the number of rows of table t with invoice number v
RowCount(t, v) == Cardinality({i \in 1..Len(t) : t[i].inv = v})

\* "GJ" or "PE" in any letter case at the start of the invoice number
PrefixAnyCase(inv) ==
    /\ Len(inv) >= 2
    /\ <<inv[1], inv[2]>> \in
         {<<"G", "J">>, <<"G", "j">>, <<"g", "J">>, <<"g", "j">>,
          <<"P", "E">>, <<"P", "e">>, <<"p", "E">>, <<"p", "e">>}

\* row i of report t continues the run of the row above it
ContinuesRun(t, i) == i > 1 /\ t[i].inv = t[i - 1].inv

\* every hyperlink cell of the row is the zero sentinel
NoLinks(r) ==
    \A k \in 1..Len(r.links) : \A p \in 1..Len(r.links[k]) : r.links[k][p] = Zero

\* the image cell is missing or empty
NoImage(c) == IsNa(c) \/ (c[1] = "str" /\ Strip(c[2]) = <<>>)

----------------------------------------------------------------------------
(* C1 *)

ExactMonthAndYear(progs) ==
    (program \in progs /\ DateCol \in jib_file.cols) =>
        \A m \in 1..12 :
            Written(m) =>
                \A i \in 1..Len(Report(m)) : Report(m)[i].date = Date(m, year)

\* C1: with a date column in the ledger, every row of the report of month m
\* has an invoice date in month m of the requested year; a row of the same
\* month of another year is never emitted.
C1_ExactMonthAndYear == ExactMonthAndYear({"v09", "sql"})

\* C1 restricted to process_sales_tax, whose mask tests month and year
C1_V09_ExactMonthAndYear == ExactMonthAndYear({"v09"})

C1_V09_Witness ==
    /\ program = "v09" /\ Written(2) /\ Report(2) # <<>>
    /\ \E i \in 1..Len(df_jib) : df_jib[i].date = Date(2, 4049 - year)

----------------------------------------------------------------------------
(* C2 *)

RetainedInvoiceTotal(progs) ==
    program \in progs =>
        \A t \in Reports :
            \A i \in 1..Len(t) : Abs(RowSum(t, t[i].inv)) >= 2000

\* C2: in every report, the gross amounts of the rows of one invoice number
\* add up to 2000 or more in absolute value, all filters applied.
C2_RetainedInvoiceTotal == RetainedInvoiceTotal({"v09", "sql"})

\* C2 for process_sales_tax alone: the vendor exclusion drops single rows
C2_V09_RetainedInvoiceTotal == RetainedInvoiceTotal({"v09"})

----------------------------------------------------------------------------
(* C3 *)

NoGJPE(progs) ==
    program \in progs =>
        \A t \in Reports : \A i \in 1..Len(t) : ~PrefixAnyCase(t[i].inv)

\* C3: no row of a report has an invoice number that begins with "GJ" or
\* "PE" in any letter case, whatever the invoice's total.
C3_NoGJPE == NoGJPE({"v09", "sql"})

\* C3 restricted to process_sales_tax, which has the filter
C3_V09_NoGJPE == NoGJPE({"v09"})

C3_V09_Witness ==
    /\ program = "v09" /\ Written(2)
    /\ \E i \in 1..Len(df_jib) :
         PrefixAnyCase(df_jib[i].inv) /\ df_jib[i].gross = Num(5000)
              /\ df_jib[i].inv[1] = "g"

----------------------------------------------------------------------------
(* C4 *)

OneSequencePerInvoice(progs) ==
    program \in progs =>
        \A t \in Reports :
            \A i, j \in 1..Len(t) :
                t[i].inv = t[j].inv => t[i].For_Seq_No = t[j].For_Seq_No

\* C4: within a report, all rows that share an invoice number share the
\* sequence number.
C4_OneSequencePerInvoice == OneSequencePerInvoice({"v09", "sql"})

\* C4 for process_sales_tax alone
C4_V09_OneSequencePerInvoice == OneSequencePerInvoice({"v09"})

----------------------------------------------------------------------------
(* C5 *)

RunningSequence(progs) ==
    program \in progs =>
        \A t \in Reports :
            /\ t # <<>> => t[1].For_Seq_No = 1
            /\ \A i \in 2..Len(t) :
                 t[i].For_Seq_No =
                    IF t[i].inv # t[i - 1].inv
                    THEN t[i - 1].For_Seq_No + 1
                    ELSE t[i - 1].For_Seq_No

\* C5: read top to bottom, the sequence number starts at 1, goes up by
\* exactly 1 on each row whose invoice number differs from the row above,
\* and stays on every other row.
C5_RunningSequence == RunningSequence({"v09", "sql"})

\* C5 restricted to process_sales_tax
C5_V09_RunningSequence == RunningSequence({"v09"})

C5_V09_Witness ==
    /\ program = "v09"
    /\ \E t \in Reports :
         /\ Len(t) = 3
         /\ t[1].inv # t[2].inv /\ t[2].inv = t[3].inv
         /\ t[3].For_Seq_No = 2

----------------------------------------------------------------------------
(* C6 *)

ZeroOffFirstRow(progs) ==
    program \in progs =>
        \A t \in Reports :
            \A i \in 1..Len(t) :
                /\ ContinuesRun(t, i) => NoLinks(t[i]) /\ t[i].Tax_Comm_Image = Zero
                /\ \A k \in 1..Len(t[i].links) :
                     NoImage(t[i].imgs[k]) =>
                        \A p \in 1..Len(t[i].links[k]) : t[i].links[k][p] = Zero

\* C6: a row that is not the first of its invoice-number run carries the
\* zero sentinel in every hyperlink column and in the filename column, and
\* a row whose image value is missing or empty carries it in the hyperlink
\* columns of that image.
C6_ZeroOffFirstRow == ZeroOffFirstRow({"v09", "sql"})

\* C6 restricted to process_sales_tax
C6_V09_ZeroOffFirstRow == ZeroOffFirstRow({"v09"})

C6_V09_Witness ==
    /\ program = "v09"
    /\ \E t \in Reports :
         /\ Len(t) >= 3
         /\ ContinuesRun(t, 2) /\ Len(t[2].links) >= 1 /\ ~NoImage(t[2].imgs[1])
         /\ t[1].links[1][1][1] = "link"
         /\ ~ContinuesRun(t, 3) /\ NoImage(t[3].imgs[1])

----------------------------------------------------------------------------
(* The month's ledger rows, as the claims read them *)

\* the rows of the loaded ledger dated in month m of the requested year
MonthRows(m) ==
    SelectRows(df_jib, {i \in 1..Len(df_jib) : df_jib[i].date = Date(m, year)})

MonthInvoices(m) == {MonthRows(m)[i].inv : i \in 1..Len(MonthRows(m))}

MonthTotal(m, v) == RowSum(MonthRows(m), v)

VendorsOf(m, v) ==
    {MonthRows(m)[i].vendor : i \in {j \in 1..Len(MonthRows(m)) : MonthRows(m)[j].inv = v}}

\* the number of rows of invoice v in the report of month m
InReport(m, v) == IF Written(m) THEN RowCount(Report(m), v) ELSE 0

\* the vendor name is one of the five listed names, letter for letter
OnListExactly(vendor) == vendor \in excluded_vendors

\* the vendor name contains one of the five listed names, letter case aside
ContainsListedName(vendor) ==
    \E v \in excluded_vendors :
        \E s \in 0..(Len(vendor) - Len(v)) :
            \A k \in 1..Len(v) : UpperChar(vendor[s + k]) = v[k]

----------------------------------------------------------------------------
(* C7 *)

VendorRule(Listed(_)) ==
    (program = "v09" /\ AllCols \subseteq jib_file.cols) =>
        \A m \in 1..12 :
            Handled(m) =>
                \A v \in MonthInvoices(m) :
                    (Abs(MonthTotal(m, v)) >= 2000 /\ ~PrefixAnyCase(v)) =>
                        /\ (\A x \in VendorsOf(m, v) : Listed(x)) =>
                              IF Abs(MonthTotal(m, v)) < 3500
                              THEN InReport(m, v) = 0
                              ELSE InReport(m, v) = RowCount(MonthRows(m), v)
                        /\ (\A x \in VendorsOf(m, v) : ~Listed(x)) =>
                              InReport(m, v) = RowCount(MonthRows(m), v)

\* C7 as stated: an invoice over the 2000 threshold, not GJ/PE, of a vendor
\* on the list of five names is absent below 3500 and present from 3500 on;
\* invoices of vendors that are not on the list are unaffected.
C7_VendorOnList == VendorRule(OnListExactly)

\* C7 amended: the rule applies to every vendor whose name contains a listed
\* name, letter case aside; an invoice all of whose rows carry such a vendor
\* is absent below 3500 and present from 3500 on, and an invoice none of
\* whose rows carries one is unaffected.
C7_VendorContainsListedName == VendorRule(ContainsListedName)

C7_Witness ==
    /\ program = "v09" /\ Handled(2) /\ Written(2)
    /\ \E v \in MonthInvoices(2) :
         /\ MonthTotal(2, v) = 3500
         /\ \A x \in VendorsOf(2, v) : ContainsListedName(x) /\ ~OnListExactly(x)
         /\ InReport(2, v) = 2
    /\ \E w \in MonthInvoices(2) :
         /\ MonthTotal(2, w) = 3499
         /\ \A x \in VendorsOf(2, w) : OnListExactly(x)
         /\ InReport(2, w) = 0

----------------------------------------------------------------------------
(* C8 *)

FirstOfInvoice(t, i) == \A j \in 1..(i - 1) : t[j].inv # t[i].inv

ExpectedFilename(m, pad) ==
    Str(<<"S">> \o Digits(year) \o ZeroPad(Digits(m), 2) \o <<"-">> \o pad \o PDF)

MixedSign(m, v) ==
    /\ \E i \in 1..Len(MonthRows(m)) : MonthRows(m)[i].inv = v /\ MonthRows(m)[i].gross[2] > 0
    /\ \E i \in 1..Len(MonthRows(m)) : MonthRows(m)[i].inv = v /\ MonthRows(m)[i].gross[2] < 0

LargestGross(m, v) ==
    CHOOSE g \in {MonthRows(m)[i].gross[2] : i \in {j \in 1..Len(MonthRows(m)) : MonthRows(m)[j].inv = v}} :
        \A i \in 1..Len(MonthRows(m)) : MonthRows(m)[i].inv = v => MonthRows(m)[i].gross[2] <= g

FilenameRule(progs) ==
    program \in progs =>
        \A m \in 1..12 :
            Written(m) =>
                \A i \in 1..Len(Report(m)) :
                    FirstOfInvoice(Report(m), i) =>
                        Report(m)[i].Tax_Comm_Image
                            = ExpectedFilename(m, Report(m)[i].Seq_No_Pad)

MixedSignRule(progs) ==
    (program \in progs /\ AllCols \subseteq jib_file.cols) =>
        \A m \in 1..12 :
            Handled(m) =>
                \A v \in MonthInvoices(m) :
                    ( /\ MixedSign(m, v)
                      /\ Abs(MonthTotal(m, v)) >= 2000
                      /\ ~PrefixAnyCase(v)
                      /\ \A x \in VendorsOf(m, v) : ~ContainsListedName(x) ) =>
                        /\ InReport(m, v) = RowCount(MonthRows(m), v)
                        /\ LET t == Report(m)
                               f == CHOOSE i \in 1..Len(t) : t[i].inv = v /\ FirstOfInvoice(t, i)
                           IN  /\ t[f].gross[2] = LargestGross(m, v)
                               /\ f = 1 =>
                                    /\ t[f].Seq_No_Pad = <<"0", "0", "1">>
                                    /\ t[f].Tax_Comm_Image = ExpectedFilename(m, <<"0", "0", "1">>)
                                    /\ \A j \in 2..Len(t) :
                                         t[j].inv = v => t[j].Tax_Comm_Image = Zero

\* C8: the filename of the first row of an invoice is "S" + year + two-digit
\* month + "-" + that row's padded sequence number + ".pdf"; an invoice of
\* mixed sign over the threshold has all its rows emitted, its row with the
\* largest gross amount first, and as top invoice of the report that row
\* carries sequence "001" and the -001 filename while its other rows carry 0.
C8_FilenameAndMixedSign ==
    FilenameRule({"v09", "sql"}) /\ MixedSignRule({"v09", "sql"})

\* the filename part of C8 alone
C8_FilenameRule == FilenameRule({"v09", "sql"})

\* the mixed-sign part of C8 for process_sales_tax alone
C8_V09_MixedSignRule == MixedSignRule({"v09"})

----------------------------------------------------------------------------
(* C9 *)

\* the ledger rows of month m that pass the threshold, the GJ/PE filter and
\* the vendor exclusion
SurvivingRows(m) ==
    {i \in 1..Len(MonthRows(m)) :
        LET r == MonthRows(m)[i]
            total == MonthTotal(m, r.inv)
        IN  /\ Abs(total) >= 2000
            /\ ~PrefixAnyCase(r.inv)
            /\ ~(Abs(total) < 3500 /\ ContainsListedName(r.vendor))}

InList(m) == \E k \in 1..Len(months) : months[k] = m

\* every month of the list in which rows survive has its file
AllSurvivorsWritten ==
    \A m \in 1..12 : (InList(m) /\ SurvivingRows(m) # {}) => Written(m)

\* C9: a month in which no row survives the filters writes no file, and the
\* loop goes on to the end of the list: every month of the list in which
\* rows survive has its file written in the end, wherever skipped months
\* stand before it.
C9_SkipAndContinue ==
    /\ [](\A m \in 1..12 :
            (program = "v09" /\ pc # "start" /\ SurvivingRows(m) = {}) => ~Written(m))
    /\ (program = "v09" /\ pc = "loop") ~> (pc = "done" /\ AllSurvivorsWritten)

C9_Witness ==
    /\ program = "v09" /\ pc = "done"
    /\ log = << <<1, "skip">>, <<2, "write">> >>
    /\ MonthRows(1) # <<>>
    /\ ~Written(1) /\ Written(2)

----------------------------------------------------------------------------
(* C10 *)

\* C10: when the ledger extract or the image cross-reference does not exist
\* or has no recognised extension, no month is processed and no file written.
C10_AbortBeforeLoop ==
    (program = "v09" /\ ~(LoadOk(jib_file) /\ LoadOk(ir_file))) =>
        /\ pc \in {"start", "aborted"}
        /\ idx = 0 /\ log = <<>> /\ files = <<>>

C10_Witness ==
    /\ program = "v09" /\ pc = "aborted"
    /\ LoadOk(jib_file) /\ ir_file.exists /\ ir_file.ext = TXT
    /\ months # <<>>

----------------------------------------------------------------------------
(* C11 *)

\* an integer as typed: digits, with blanks around them at most
PlainInt(s) ==
    LET t == Strip(s) IN t # <<>> /\ \A i \in 1..Len(t) : IsDigit(t[i])

\* "a-b": exactly two integers around one "-"
IsRangeText(s) ==
    \E k \in 1..Len(s) :
        /\ s[k] = "-"
        /\ PlainInt(SubSeq(s, 1, k - 1))
        /\ PlainInt(SubSeq(s, k + 1, Len(s)))

RECURSIVE IsListText(_)
\* one integer, or integers separated by commas
IsListText(s) ==
    \/ PlainInt(s)
    \/ \E k \in 1..Len(s) :
          /\ s[k] = ","
          /\ PlainInt(SubSeq(s, 1, k - 1))
          /\ IsListText(SubSeq(s, k + 1, Len(s)))

Malformed(s) == ~IsRangeText(s) /\ ~IsListText(s)

MalformedGivesDefault(progs) ==
    (program \in progs /\ pc # "main" /\ Malformed(month_in)) =>
        pc = "start" /\ months = <<1>>

\* C11: for every malformed month specification (not one integer, not a
\* range of exactly two integers, not a comma-separated list of integers)
\* parse_months raises nothing and returns exactly the list [1], in each of
\* the three scripts.
C11_MalformedGivesDefault == MalformedGivesDefault({"v09", "draft", "sql"})

\* C11 for the draft and the SQL script alone
C11_Unpacking_MalformedGivesDefault == MalformedGivesDefault({"draft", "sql"})

C11_Unpacking_Witness ==
    /\ program \in {"draft", "sql"} /\ pc = "start"
    /\ month_in = <<"1", "-", "2", "-", "3">>
    /\ months = <<1>>

----------------------------------------------------------------------------
\* The end of a run

\* an exception reached __main__ in this run: its handler left a record
Raised == \E i \in 1..Len(log) : log[i] \in {Traceback, Message}

\* the traceback is logged for every exception that reached __main__, and the
\* year that is not a number stops the run before any month is processed
TracebackLogged(progs) ==
    program \in progs =>
        /\ Raised => \E i \in 1..Len(log) : log[i] = Traceback
        /\ (pc # "main" /\ ~IsInt(year_in)) =>
               /\ \E i \in 1..Len(log) : log[i] = Traceback
               /\ idx = 0 /\ files = <<>> /\ pc = "prompt"

\* C12: whatever happens in the top-level run - an exception (the year that
\* is not a number included, which stops the run before any month) or a
\* successful run - the exception's traceback is logged and the program
\* reaches the final "Press ENTER" prompt.
C12_TracebackAndPrompt ==
    /\ [] TracebackLogged({"v09", "draft"})
    /\ (program \in {"v09", "draft"}) => <>(pc = "prompt")

\* C12 for the script with logging alone, whose __main__ has the `finally`
C12_Logged_TracebackAndPrompt ==
    /\ [] TracebackLogged({"v09"})
    /\ (program = "v09") => <>(pc = "prompt")

C12_Logged_Witness ==
    /\ program = "v09" /\ pc = "prompt" /\ ~IsInt(year_in)
    /\ log = <<Traceback>> /\ files = <<>>

C12_Logged_SuccessWitness ==
    /\ program = "v09" /\ pc = "prompt" /\ files # <<>> /\ ~Raised

----------------------------------------------------------------------------
(* C13 *)

\* ledgers that lack one of the four expected columns (the cells of the
\* absent column are never read); one input has no image cross-reference
ColumnInputs ==
    Inputs(Tables(LedgerRows({A1, B1}, {ACME, MARYBOY}, {Num(1), Num(2500)},
                             {Date(2, 2024), Date(3, 2024)}),
                  MaxRows),
           {AllCols \ {x} : x \in {DateCol, GrossCol, InvCol, VendorCol}},
           {IrDefault}, {<<2, 3>>}, {2024})
      \cup Inputs({<<>>}, {AllCols \ {DateCol}},
                  {[IrDefault EXCEPT !.exists = FALSE]}, {<<2, 3>>}, {2024})

ColumnInit == InitFor({"v09"}, ColumnInputs)

ColumnNext == V09LoadFails \/ V09Load \/ V09Month \/ V09Finish

\* the script with logging on ledgers that lack a column
ColumnSpec == ColumnInit /\ [][ColumnNext]_vars

Lacks(col) == jib_file.cols = AllCols \ {col}

ReportLen(m) == IF Written(m) THEN Len(Report(m)) ELSE 0

\* the rows of table t (by index) that pass the threshold, the GJ/PE filter
\* and, when by_vendor, the vendor exclusion
Survivors(t, by_vendor) ==
    {i \in 1..Len(t) :
        /\ Abs(RowSum(t, t[i].inv)) >= 2000
        /\ ~PrefixAnyCase(t[i].inv)
        /\ ~(by_vendor /\ Abs(RowSum(t, t[i].inv)) < 3500
                /\ ContainsListedName(t[i].vendor))}

\* no date column: the report of every month is built from all ledger rows
NoDateColumn(m) ==
    /\ ReportLen(m) = Cardinality(Survivors(df_jib, TRUE))
    /\ \A i \in Survivors(df_jib, TRUE) :
         \E j \in 1..ReportLen(m) :
            /\ Report(m)[j].inv = df_jib[i].inv
            /\ Report(m)[j].vendor = df_jib[i].vendor
            /\ Report(m)[j].gross = df_jib[i].gross
            /\ Report(m)[j].date = df_jib[i].date

\* no gross column: no threshold, no exclusion by total, and the rows stay in
\* the order of vendor and invoice number
NoGrossColumn(m) ==
    /\ ReportLen(m) =
         Cardinality({i \in 1..Len(MonthRows(m)) : ~PrefixAnyCase(MonthRows(m)[i].inv)})
    /\ \A j \in 2..ReportLen(m) :
         \/ StrLess(Report(m)[j - 1].vendor, Report(m)[j].vendor)
         \/ /\ Report(m)[j - 1].vendor = Report(m)[j].vendor
            /\ ~StrLess(Report(m)[j].inv, Report(m)[j - 1].inv)

\* no invoice column: every row is a first row, numbered 1..n
NoInvoiceColumn(m) ==
    /\ ReportLen(m) = Len(MonthRows(m))
    /\ \A j \in 1..ReportLen(m) :
         /\ Report(m)[j].is_first_row
         /\ Report(m)[j].For_Seq_No = j
         /\ Report(m)[j].Tax_Comm_Image # Zero

\* no vendor column: the threshold and the GJ/PE filter alone
NoVendorColumn(m) ==
    ReportLen(m) = Cardinality(Survivors(MonthRows(m), FALSE))

\* C13: a ledger that lacks one expected column does not abort the run, and
\* the stage that needs the column is skipped: without the date column every
\* month's report is built from all ledger rows; without the gross column
\* there is no threshold filter and no sort by total; without the invoice
\* column every row is a first row and the sequence numbers are 1..n;
\* without the vendor column the vendor exclusion is skipped.
C13_MissingColumnDefaults ==
    (program = "v09" /\ LoadOk(jib_file) /\ LoadOk(ir_file)
        /\ \E col \in {DateCol, GrossCol, InvCol, VendorCol} : Lacks(col)) =>
        /\ pc \in {"start", "loop", "done"}
        /\ \A m \in 1..12 : Handled(m) =>
             /\ Lacks(DateCol) => NoDateColumn(m)
             /\ Lacks(GrossCol) => NoGrossColumn(m)
             /\ Lacks(InvCol) => NoInvoiceColumn(m)
             /\ Lacks(VendorCol) => NoVendorColumn(m)

\* no date column: each month's report holds a row dated in the other month
C13_Witness ==
    /\ program = "v09" /\ pc = "done" /\ Lacks(DateCol)
    /\ Written(2) /\ Written(3)
    /\ \E j \in 1..Len(Report(2)) : Report(2)[j].date = Date(3, 2024)
    /\ \E j \in 1..Len(Report(3)) : Report(3)[j].date = Date(2, 2024)

\* no gross column: a row of gross amount 1 is reported
C13_NoGross_Witness ==
    /\ program = "v09" /\ pc = "done" /\ Lacks(GrossCol) /\ Written(2)
    /\ \E j \in 1..Len(Report(2)) : Report(2)[j].gross = Num(1)

\* no invoice column: two rows of one invoice are both first rows
C13_NoInvoice_Witness ==
    /\ program = "v09" /\ pc = "done" /\ Lacks(InvCol) /\ Written(2)
    /\ Len(Report(2)) = 3
    /\ Report(2)[1].inv = Report(2)[2].inv
    /\ Report(2)[2].is_first_row /\ Report(2)[3].For_Seq_No = 3

\* no vendor column: a listed vendor's invoice of 2500 is reported
C13_NoVendor_Witness ==
    /\ program = "v09" /\ pc = "done" /\ Lacks(VendorCol) /\ Written(2)
    /\ \E j \in 1..Len(Report(2)) :
         Report(2)[j].vendor = MARYBOY /\ Report(2)[j].Inv_Total = 2500

----------------------------------------------------------------------------
(* C14 *)

\* one invoice of 2500 with an image, dated in the requested month, for
\* every month of the year
QuarterInputs ==
    UNION {Inputs(Tables(LedgerRows({A1}, {ACME}, {Num(2500)}, {Date(m, y)}), MaxRows),
                  {AllCols}, {IrDefault}, {<<m>>}, {y}) :
             m \in 1..12, y \in {2023, 2024}}

QuarterInit == InitFor({"v09", "draft", "sql"}, QuarterInputs)

QuarterNext ==
    \/ V09Load \/ V09Month \/ V09Finish
    \/ DraftLoad \/ DraftMonth \/ DraftFinish
    \/ SqlLoad \/ SqlMonth \/ SqlFinish

\* the three scripts on every month of the year
QuarterSpec == QuarterInit /\ [][QuarterNext]_vars

\* month to quarter by integer division
QuarterOf(m) == ((m - 1) \div 3) + 1

\* the quarter after the quarter of month m of year y, as <<quarter, year>>
QuarterAfter(m, y) ==
    IF QuarterOf(m) < 4 THEN <<QuarterOf(m) + 1, y>> ELSE <<1, y + 1>>

\* the four base paths the rule gives: current and next quarter, per store
ExpectedPaths(m, y) ==
    << <<"Dropbox", y, QuarterOf(m)>>,
       <<"Dropbox", QuarterAfter(m, y)[2], QuarterAfter(m, y)[1]>>,
       <<"F Drive", y, QuarterOf(m)>>,
       <<"F Drive", QuarterAfter(m, y)[2], QuarterAfter(m, y)[1]>> >>

\* every hyperlink of the report of month m points into the expected folder
LinksFollow(m) ==
    \A j \in 1..Len(Report(m)) :
       \A k \in 1..Len(Report(m)[j].links) :
          \A p \in 1..4 :
             LET l == Report(m)[j].links[k][p]
             IN  l[1] = "link" =>
                    <<l[2], l[3], l[4]>> = ExpectedPaths(m, year)[p]

\* C14: for every month m of 1..12 and year y the current quarter of the
\* hyperlink paths is (m-1) div 3 + 1 in year y, the next quarter is the
\* current one plus 1 in year y, or quarter 1 of year y+1 after quarter 4;
\* the table with (q % 4) + 1, the conditional and get_quarter_info(m, y, 0)
\* and (m, y, 1) give the same pairs.
C14_QuarterPaths ==
    /\ \A m \in 1..12 :
         /\ Paths(m, year) = ExpectedPaths(m, year)
         /\ DraftPaths(m, year) = ExpectedPaths(m, year)
         /\ SqlPaths(m, year) = ExpectedPaths(m, year)
         /\ get_quarter_info(m, year, 0) = <<CurrentQ(m), year>>
         /\ get_quarter_info(m, year, 1) = <<NextQ(m), NextQYear(m, year)>>
         /\ DraftNextQ(m) = NextQ(m)
    /\ \A m \in 1..12 : Written(m) => LinksFollow(m)

\* December 2024: the next-quarter links point into Q1 of 2025
C14_Witness ==
    /\ pc = "done" /\ year = 2024 /\ Written(12)
    /\ Report(12)[1].links[1][1] = <<"link", "Dropbox", 2024, 4, IMG_A>>
    /\ Report(12)[1].links[1][2] = <<"link", "Dropbox", 2025, 1, IMG_A>>
    /\ Report(12)[1].links[1][4] = <<"link", "F Drive", 2025, 1, IMG_A>>

----------------------------------------------------------------------------
(* C15 *)

\* the loop reported the month as written
Saved(m) == \E i \in 1..Len(log) : log[i] = <<m, "write">>

\* "<year> <two-digit month> Sales Tax - NNOGC PY d1-4.xlsx"
ExpectedName(m, y) ==
    Digits(y) \o <<" ">> \o (IF m < 10 THEN <<"0">> \o Digits(m) ELSE Digits(m))
        \o <<" ", "S", "a", "l", "e", "s", " ", "T", "a", "x", " ", "-", " ",
             "N", "N", "O", "G", "C", " ", "P", "Y", " ", "d", "1", "-", "4",
             ".", "x", "l", "s", "x">>

OneFilePerMonth(progs) ==
    program \in progs =>
        /\ \A m \in 1..12 :
             /\ Saved(m) =>
                  /\ ExpectedName(m, year) \in DOMAIN files
                  /\ files[ExpectedName(m, year)] # <<>> =>
                        \A j \in 1..Len(files[ExpectedName(m, year)]) :
                           files[ExpectedName(m, year)][j].date[2] = m
             /\ ~Saved(m) => ExpectedName(m, year) \notin DOMAIN files
        /\ DOMAIN files = {ExpectedName(m, year) : m \in {k \in 1..12 : Saved(k)}}
        /\ Cardinality(DOMAIN files) = Cardinality({k \in 1..12 : Saved(k)})

\* C15: in one run every month whose report the loop saves has exactly one
\* file, named "<year> <two-digit month> Sales Tax - NNOGC PY d1-4.xlsx";
\* two different months never share a file name, so every saved month's file
\* holds that month's rows.
C15_OneFilePerMonth == OneFilePerMonth({"v09", "sql"})

C15_Witness ==
    /\ program \in {"v09", "sql"} /\ pc = "done" /\ months = <<1, 2>>
    /\ DOMAIN files = {ExpectedName(1, 2024), ExpectedName(2, 2024)}
    /\ Report(1) # <<>> /\ Report(2) # <<>>
    /\ Report(1)[1].date = Date(1, 2024) /\ Report(2)[1].date = Date(2, 2024)

----------------------------------------------------------------------------
(* C16 *)

\* the ledger cells of a report row or of a filtered row
LedgerCells(r) == <<r.inv, r.vendor, r.prop, r.bill, r.gross, r.date, r.Inv_Total>>

LedgerPart(t) == [i \in 1..Len(t) |-> LedgerCells(t[i])]

\* the month's rows after the filters and the sort, before the image
\* references are attached
BeforeImages(m) ==
    IF program = "sql"
    THEN SortValues(SqlFiltered(Stage1(df_jib, m)), AllCols, "sql")
    ELSE Resort(Filtered(FilterByDate(df_jib, jib_file.cols, m, year),
                         jib_file.cols),
                jib_file.cols)

\* the image cross-reference names invoice v in n rows
ImageRowsOf(v) ==
    Cardinality({i \in 1..Len(ir_file.rows) : NormInv(ir_file.rows[i].inv) = v})

ImagesKeepRows(progs) ==
    (program \in progs /\ pc \in {"loop", "done"}) =>
        \A m \in 1..12 :
           (Handled(m) /\ Written(m)) =>
               LedgerPart(Report(m)) = LedgerPart(BeforeImages(m))

\* C16: attaching the image references adds, removes and reorders no row:
\* the report of a month has one row for each row that survived the filters,
\* in the sorted order, also when the image cross-reference has several rows
\* for an invoice number or none.
C16_ImagesKeepRows == ImagesKeepRows({"v09", "sql"})

\* two cross-reference rows for A1, none for B1, both invoices reported
C16_Witness ==
    /\ program \in {"v09", "sql"} /\ pc = "done" /\ Written(2)
    /\ ImageRowsOf(A1) = 2 /\ ImageRowsOf(B1) = 0
    /\ Len(Report(2)) = 3
    /\ \E j \in 1..3 : Report(2)[j].inv = A1
    /\ \E j \in 1..3 : Report(2)[j].inv = B1

----------------------------------------------------------------------------
(* C17 *)

\* every ledger row is dated in the requested year (the image
\* cross-reference has its four image columns: ir_file.nimg = MaxImgCols)
DatedThisYear ==
    \A i \in 1..Len(df_jib) :
       df_jib[i].date[1] = "date" /\ df_jib[i].date[3] = year

\* no row of invoice v in month m names a listed vendor
NoListedVendor(m, v) == \A x \in VendorsOf(m, v) : ~ContainsListedName(x)

TotalOverAllRows(progs) ==
    (program \in progs /\ pc \in {"loop", "done"} /\ DatedThisYear
        /\ ir_file.nimg = MaxImgCols) =>
        \A m \in 1..12 : Handled(m) =>
           /\ Written(m) =>
                \A j \in 1..Len(Report(m)) :
                   Report(m)[j].Inv_Total = MonthTotal(m, Report(m)[j].inv)
           /\ \A v \in MonthInvoices(m) :
                /\ (Abs(MonthTotal(m, v)) >= 2000 /\ ~PrefixAnyCase(v)
                       /\ NoListedVendor(m, v)) =>
                      InReport(m, v) = RowCount(MonthRows(m), v)
                /\ Abs(MonthTotal(m, v)) < 2000 => InReport(m, v) = 0

\* C17: the invoice total of the threshold test is the sum of the gross
\* amounts of all the month's rows of the invoice number, rows that are
\* alike in invoice, vendor, property, billing category and amount included;
\* the SQL script and the dataframe script compute this same total and so
\* retain the same invoices.
C17_TotalOverAllRows == TotalOverAllRows({"v09", "sql"})

\* C17 for the dataframe script alone (groupby-sum)
C17_V09_TotalOverAllRows == TotalOverAllRows({"v09"})

\* two rows of 1000 alike in every column: reported with a total of 2000
C17_V09_Witness ==
    /\ program = "v09" /\ pc = "done" /\ Written(2)
    /\ Len(MonthRows(2)) = 2 /\ MonthRows(2)[1] = MonthRows(2)[2]
    /\ MonthRows(2)[1].gross = Num(1000)
    /\ Len(Report(2)) = 2 /\ Report(2)[1].Inv_Total = 2000

----------------------------------------------------------------------------
(* C18 *)

\* every invoice of a handled month that satisfies Among is reported with
\* all of its rows or with none
AllOrNothing(Among(_, _)) ==
    (program = "v09" /\ pc \in {"loop", "done"} /\ AllCols \subseteq jib_file.cols) =>
        \A m \in 1..12 : Handled(m) =>
           \A v \in MonthInvoices(m) :
              Among(m, v) => InReport(m, v) \in {0, RowCount(MonthRows(m), v)}

AnyInvoice(m, v) == TRUE

\* the rows of the invoice are all of listed vendors or all of unlisted ones
UniformVendors(m, v) ==
    \/ \A x \in VendorsOf(m, v) : ContainsListedName(x)
    \/ \A x \in VendorsOf(m, v) : ~ContainsListedName(x)

\* C18: the filters keep or drop whole invoices: of every invoice number in
\* the month's rows either all rows are in the month's report or none is,
\* also when the rows of the invoice name different vendors of which only
\* some are on the list of excluded vendors.
C18_AllOrNothing == AllOrNothing(AnyInvoice)

\* C18 for the invoices whose rows are all listed or all unlisted
C18_Uniform_AllOrNothing == AllOrNothing(UniformVendors)

\* an invoice of two rows kept whole, another dropped whole
C18_Uniform_Witness ==
    /\ program = "v09" /\ pc = "done" /\ Written(2)
    /\ \E v \in MonthInvoices(2) :
          RowCount(MonthRows(2), v) = 2 /\ InReport(2, v) = 2
    /\ \E v \in MonthInvoices(2) : InReport(2, v) = 0

----------------------------------------------------------------------------
(* C19 *)

\* row i of report t starts a run of its invoice number
StartsRun(t, i) == i = 1 \/ t[i].inv # t[i - 1].inv

\* the rows of every invoice number of report t are adjacent
Adjacent(t) ==
    \A i, j \in 1..Len(t) :
       (i < j /\ t[i].inv = t[j].inv) => \A k \in i..j : t[k].inv = t[i].inv

OneFilenamePerSequence(Among(_)) ==
    program = "v09" =>
        \A t \in {r \in Reports : Among(r)} :
           /\ \A i \in 1..Len(t) : t[i].is_first_row <=> StartsRun(t, i)
           /\ \A s \in {t[i].For_Seq_No : i \in 1..Len(t)} :
                 /\ Cardinality({i \in 1..Len(t) :
                                   t[i].For_Seq_No = s /\ t[i].Tax_Comm_Image # Zero}) = 1
                 /\ \A i \in 1..Len(t) :
                       (t[i].For_Seq_No = s /\ t[i].Tax_Comm_Image # Zero) =>
                           StartsRun(t, i)

AnyReport(t) == TRUE

\* C19: in every report each sequence number has exactly one row with a
\* tax-commission filename other than 0, the first row of its run: the
\* first-row flag (first occurrence of the invoice number in the sorted
\* rows) and the run boundaries of the numbering mark the same rows.
C19_OneFilenamePerSequence == OneFilenamePerSequence(AnyReport)

\* C19 for the reports in which the rows of every invoice are adjacent
C19_Adjacent_OneFilenamePerSequence == OneFilenamePerSequence(Adjacent)

\* two runs, the second of two rows: filenames on rows 1 and 2 only
C19_Adjacent_Witness ==
    /\ program = "v09"
    /\ \E t \in Reports :
         /\ Len(t) = 3 /\ Adjacent(t)
         /\ t[1].inv # t[2].inv /\ t[2].inv = t[3].inv
         /\ t[1].Tax_Comm_Image # Zero /\ t[2].Tax_Comm_Image # Zero
         /\ t[3].Tax_Comm_Image = Zero
         /\ t[3].For_Seq_No = 2

----------------------------------------------------------------------------
(* C20 *)

PAREN_1234 == <<"(", "1", ",", "2", "3", "4", ")">>
DOLLAR_2000 == <<"$", "2", ",", "0", "0", "0">>
ABC == <<"a", "b", "c">>

\* gross cells as numbers, empty, and as texts with and without a number
CurrencyInputs ==
    Inputs(Tables(LedgerRows({A1, B1}, {ACME},
                             {Num(2500), NaN, Str(PAREN_1234), Str(DOLLAR_2000), Str(ABC)},
                             {Date(2, 2024)}),
                  MaxRows),
           {AllCols}, {IrDefault}, {<<2>>}, {2024})

CurrencyInit == InitFor({"v09", "draft", "sql"}, CurrencyInputs)

\* the three scripts on ledgers with text in the gross column
CurrencySpec == CurrencyInit /\ [][QuarterNext]_vars

\* the amount a gross cell stands for; NaN for none
AmountOf(cell) ==
    IF cell = Str(PAREN_1234) THEN Num(-1234)
    ELSE IF cell = Str(DOLLAR_2000) THEN Num(2000)
    ELSE IF cell[1] = "num" THEN cell
    ELSE NaN

\* the rows of the source file that have an amount
RowsWithAmount ==
    SelectRows(jib_file.rows,
               {i \in 1..Len(jib_file.rows) : ~IsNa(AmountOf(jib_file.rows[i].gross))})

NoNullGross(progs) ==
    (program \in progs /\ pc \in {"loop", "done"}) =>
        /\ program # "sql" =>
              /\ Len(df_jib) = Len(RowsWithAmount)
              /\ \A i \in 1..Len(df_jib) :
                    /\ df_jib[i].inv = RowsWithAmount[i].inv
                    /\ df_jib[i].gross = AmountOf(RowsWithAmount[i].gross)
        /\ \A t \in Reports : \A i \in 1..Len(t) : ~IsNa(t[i].gross)

\* C20: after preprocessing no ledger row has a null gross amount: the rows
\* whose gross cell was empty and the rows whose gross text is no number
\* after the cleaning ("(" to "-"; ")", "$" and "," removed) are dropped, so
\* that no report row has a null gross amount; "(1,234)" is kept as -1234.
C20_NoNullGross == NoNullGross({"v09", "draft", "sql"})

\* C20 for the script with logging alone
C20_V09_NoNullGross == NoNullGross({"v09"})

\* two rows of "(1,234)" are reported as -1234, the row of "abc" is dropped
C20_V09_Witness ==
    /\ program = "v09" /\ pc = "done" /\ Written(2)
    /\ Len(jib_file.rows) = 3 /\ Len(df_jib) = 2
    /\ \E i \in 1..3 : jib_file.rows[i].gross = Str(ABC)
    /\ \E i \in 1..3 : jib_file.rows[i].gross = Str(PAREN_1234)
    /\ Len(Report(2)) = 2
    /\ Report(2)[1].gross = Num(-1234) /\ Report(2)[1].Inv_Total = -2468

----------------------------------------------------------------------------
(* C21 *)

\* the rows of the image cross-reference file (by index) of invoice v
IrRowsOf(v) == {i \in 1..Len(ir_file.rows) : NormInv(ir_file.rows[i].inv) = v}

\* the first value of image column k that is not null among the rows of
\* invoice v, in file order; null when all are null
FirstImage(v, k) ==
    LET nn == {i \in IrRowsOf(v) : ~IsNa(ir_file.rows[i].imgs[k])}
    IN  IF nn = {} THEN NaN
        ELSE ir_file.rows[CHOOSE i \in nn : \A j \in nn : i <= j].imgs[k]

\* the invoice numbers of the cross-reference are written in normal form
IrPlain == \A i \in 1..Len(ir_file.rows) : NormInv(ir_file.rows[i].inv) = ir_file.rows[i].inv

FirstImagePerSlot(progs) ==
    (program \in progs /\ pc \in {"loop", "done"}) =>
        /\ program = "v09" =>
              /\ \A g, h \in 1..Len(df_ir_grouped) :
                    df_ir_grouped[g].inv = df_ir_grouped[h].inv => g = h
              /\ \A i \in 1..Len(ir_file.rows) :
                    \E g \in 1..Len(df_ir_grouped) :
                       df_ir_grouped[g].inv = NormInv(ir_file.rows[i].inv)
              /\ \A g \in 1..Len(df_ir_grouped) :
                    \A k \in 1..ir_file.nimg :
                       df_ir_grouped[g].imgs[k] = FirstImage(df_ir_grouped[g].inv, k)
        /\ IrPlain =>
              \A t \in Reports : \A j \in 1..Len(t) :
                 \A k \in 1..Len(t[j].imgs) :
                    t[j].imgs[k] = FirstImage(t[j].inv, k)

\* C21: the de-duplicated image cross-reference has every invoice number
\* once, and each of its image columns holds the first value of that column
\* that is not null among the invoice's rows in file order, column by
\* column: the images of one invoice may come from different rows, and one
\* is null only when it is null in all the invoice's rows.
C21_FirstImagePerSlot == FirstImagePerSlot({"v09", "sql"})

\* C21 for the dataframe script alone (groupby(...).first())
C21_V09_FirstImagePerSlot == FirstImagePerSlot({"v09"})

\* invoice A1: image 1 from the first row, image 2 from the second
C21_V09_Witness ==
    /\ program = "v09" /\ pc = "done" /\ Written(2)
    /\ ir_file.rows = <<IrRow(A1, Str(IMG_A), NaN), IrRow(A1, NaN, Str(IMG_B))>>
    /\ ir_file.nimg = 4
    /\ \E j \in 1..Len(Report(2)) :
          /\ Report(2)[j].inv = A1
          /\ Report(2)[j].imgs = <<Str(IMG_A), Str(IMG_B), NaN, NaN>>

----------------------------------------------------------------------------
(* C22 *)

P2 == <<"P", "2">>
BD == <<"B", "D">>

\* ledgers in every file order whose rows differ in each of the sort keys
SortRows ==
    {[inv |-> i, vendor |-> v, prop |-> pb[1], bill |-> pb[2], gross |-> g,
      date |-> Date(2, 2024)] :
        i \in {A1, B1}, v \in {ACME, BETA},
        pb \in {<<P1, BC>>, <<P1, BD>>, <<P2, BC>>},
        g \in {Num(1000), Num(3000)}}

SortInputs ==
    Inputs(OrderedTables(SortRows, MaxRows), {AllCols}, {IrDefault}, {<<2>>}, {2024})

SortInit == InitFor({"v09"}, SortInputs)

SortNext == V09Load \/ V09Month \/ V09Finish

\* the script with logging on ledgers in every file order
SortSpec == SortInit /\ [][SortNext]_vars

\* row a may stand directly above row b
InReportOrder(a, b) ==
    \/ a.Inv_Total > b.Inv_Total
    \/ /\ a.Inv_Total = b.Inv_Total
       /\ \/ StrLess(a.vendor, b.vendor)
          \/ /\ a.vendor = b.vendor
             /\ \/ StrLess(a.inv, b.inv)
                \/ /\ a.inv = b.inv
                   /\ \/ StrLess(a.prop, b.prop)
                      \/ /\ a.prop = b.prop
                         /\ \/ StrLess(a.bill, b.bill)
                            \/ /\ a.bill = b.bill
                               /\ a.gross[2] >= b.gross[2]

\* C22: in every report the rows stand in non-increasing order of the signed
\* invoice total; rows of equal total stand in ascending order of vendor,
\* then invoice number, then property, then billing category, and last in
\* descending order of the gross amount.
C22_ReportOrder ==
    program = "v09" =>
        \A t \in Reports : \A i \in 1..(Len(t) - 1) : InReportOrder(t[i], t[i + 1])

\* three rows of one invoice given as 1000/BC, 3000/BD, 3000/BC in the file
\* are reported as 3000/BC, 1000/BC, 3000/BD
C22_Witness ==
    /\ program = "v09" /\ pc = "done" /\ Written(2)
    /\ Len(jib_file.rows) = 3
    /\ jib_file.rows[1].gross = Num(1000) /\ jib_file.rows[1].bill = BC
    /\ jib_file.rows[2].gross = Num(3000) /\ jib_file.rows[2].bill = BD
    /\ jib_file.rows[3].gross = Num(3000) /\ jib_file.rows[3].bill = BC
    /\ Len(Report(2)) = 3
    /\ Report(2)[1].gross = Num(3000) /\ Report(2)[1].bill = BC
    /\ Report(2)[2].gross = Num(1000) /\ Report(2)[2].bill = BC
    /\ Report(2)[3].bill = BD

----------------------------------------------------------------------------
(* C23 *)

\* the reports a run that requests month m alone can write for it
AloneReports(m) ==
    IF program = "sql"
    THEN {SqlReport(jib_file.rows, ir_file.rows, pick, m, year) :
            pick \in IrPicks(ir_file.rows)}
    ELSE {ProcessMonth(PreprocessJib(jib_file), jib_file.cols, GroupIr(ir_file),
                       ir_file.nimg, m, year).rows}

\* a step of the month loop leaves both tables as they are
TablesKept ==
    (program \in {"v09", "sql"} /\ pc = "loop") =>
        df_jib' = df_jib /\ df_ir_grouped' = df_ir_grouped

\* C23: processing a month leaves the preprocessed ledger table and the
\* de-duplicated image table unchanged, and the report of a month in a run
\* over several months is the report of a run that requests this month
\* alone, whatever months stand before it, skipped or written.
C23_MonthsIndependent ==
    /\ [][TablesKept]_vars
    /\ []((program \in {"v09", "sql"} /\ pc \in {"loop", "done"}) =>
            \A m \in 1..12 : Written(m) => Report(m) \in AloneReports(m))

\* month 3 is reported after month 1 was: the ledger still has the rows of
\* both months
C23_Witness ==
    /\ program = "v09" /\ pc = "done" /\ months = <<1, 3>>
    /\ log = << <<1, "write">>, <<3, "write">> >>
    /\ Report(3) # <<>> /\ Report(3)[1].date = Date(3, 2024)
    /\ \E i \in 1..Len(df_jib) : df_jib[i].date = Date(1, 2024)

----------------------------------------------------------------------------
(* C24 *)

\* the number a text of digits, with blanks around it, stands for
ValueOf(s) == DigitsValue(Strip(s))

RECURSIVE ListValues(_)
\* the numbers of a comma-separated list, in the order written
ListValues(s) ==
    IF \A i \in 1..Len(s) : s[i] # "," THEN <<ValueOf(s)>>
    ELSE LET k == CHOOSE i \in 1..Len(s) : s[i] = "," /\ \A j \in 1..(i - 1) : s[j] # ","
         IN <<ValueOf(SubSeq(s, 1, k - 1))>> \o ListValues(SubSeq(s, k + 1, Len(s)))

\* the numbers a well-formed month specification denotes, as written
DenotedList(s) ==
    IF IsRangeText(s)
    THEN LET k == CHOOSE i \in 1..Len(s) : s[i] = "-"
             a == ValueOf(SubSeq(s, 1, k - 1))
             b == ValueOf(SubSeq(s, k + 1, Len(s)))
         IN  IF b < a THEN <<>> ELSE [i \in 1..(b - a + 1) |-> a + i - 1]
    ELSE ListValues(s)

ParsesMonths(progs) ==
    (program \in progs /\ pc # "main") =>
        /\ \A i \in 1..Len(months) : months[i] \in 1..12
        /\ ~Malformed(month_in) =>
              LET d == DenotedList(month_in)
              IN  /\ {months[i] : i \in 1..Len(months)}
                        = {d[i] : i \in 1..Len(d)} \cap 1..12
                  /\ Len(months) = Cardinality({i \in 1..Len(d) : d[i] \in 1..12})
                  /\ \A i \in 1..(Len(months) - 1) : months[i] <= months[i + 1]

\* C24: for every well-formed month specification (one integer, a range
\* "a-b", a comma-separated list) parse_months returns exactly the denoted
\* months that lie in 1..12, in ascending order; for every input every
\* returned month lies in 1..12, and a value outside 1..12 is dropped and
\* not replaced ("13" and "3-1" give the empty list).
C24_ParsesMonths == ParsesMonths({"v09", "draft", "sql"})

\* C24 for the two scripts that sort the list
C24_Sorted_ParsesMonths == ParsesMonths({"v09", "draft"})

\* "3,1" gives [1, 3]
C24_Sorted_Witness ==
    /\ program \in {"v09", "draft"} /\ pc = "start"
    /\ month_in = <<"3", ",", "1">> /\ months = <<1, 3>>

\* "13" and "3-1" give the empty list, "11-13" gives [11, 12]
C24_Sorted_DroppedWitness ==
    /\ program \in {"v09", "draft"} /\ pc = "start"
    /\ \/ month_in = <<"1", "3">> /\ months = <<>>
       \/ month_in = <<"1", "1", "-", "1", "3">> /\ months = <<11, 12>>

----------------------------------------------------------------------------
(* C25 *)

MaxWords == 3

HeaderWords == {<<"t", "h", "e">>, <<"f", "o", "r">>, <<"b", "y">>, <<"g", "l">>,
                <<"c", "o", "d", "e">>}

RECURSIVE SnakeCase(_, _)
\* the words joined by the separator
SnakeCase(words, sep) ==
    IF Len(words) = 1 THEN words[1]
    ELSE words[1] \o sep \o SnakeCase(Tail(words), sep)

\* names of ledger columns the scripts do not look for, as load_data leaves
\* them: small letters, the words joined by "_" ("__" where the typed header
\* had ". " between two words)
ExtraNames ==
    {SnakeCase(w, <<"_">>) : w \in UNION {[1..k -> HeaderWords] : k \in 1..MaxWords}}
        \cup {SnakeCase(w, <<"_", "_">>) : w \in [1..2 -> HeaderWords]}

\* a ledger with one more column, an invoice of 2 500 in January and one in
\* December, with or without the invoice column
HeaderInputs ==
    {[jib |-> [exists |-> TRUE, ext |-> XLSX, cols |-> c, extra |-> <<n>>,
               rows |-> <<[inv |-> A1, vendor |-> ACME, prop |-> P1, bill |-> BC,
                           gross |-> Num(2500), date |-> Date(1, 2024)],
                          [inv |-> A1, vendor |-> ACME, prop |-> P1, bill |-> BC,
                           gross |-> Num(2500), date |-> Date(12, 2024)]>>],
      ir |-> IrFile(<<IrRow(A1, Str(IMG_A), NaN)>>, k),
      months |-> m, year |-> 2024] :
        c \in {AllCols, AllCols \ {InvCol}}, n \in ExtraNames, k \in {2, 4},
        m \in {<<1>>, <<12>>, <<1, 12>>}}

HeaderInit == InitFor({"v09", "draft"}, HeaderInputs)

HeaderNext ==
    \/ V09Load \/ V09Month \/ V09Finish
    \/ DraftLoad \/ DraftMonth \/ DraftFinish

HeaderSpec == HeaderInit /\ [][HeaderNext]_vars

\* the columns of the sheet of month m before renaming, from the inputs
SheetColumns(m) ==
    final_cols_ordered(jib_file, GroupIr(ir_file), ir_file.nimg, CurrentQ(m),
                       IF CurrentQ(m) < 4 THEN CurrentQ(m) + 1 ELSE 1)

\* the label a renamed column gets
LabelOf(col) ==
    CASE col = FOR_SEQ_NO -> FOR_SEQUENCE_LABEL
      [] col = SEQ_NO_PAD -> SEQUENCE_LABEL
      [] col = TAX_COMM_IMAGE -> TAX_COMM_LABEL
      [] col = ColumnName[InvCol] -> INVOICE_LABEL
      [] col = ColumnName[GrossCol] -> GROSS_LABEL

RenamedColumns ==
    {FOR_SEQ_NO, SEQ_NO_PAD, TAX_COMM_IMAGE, ColumnName[InvCol], ColumnName[GrossCol]}

IsSeparator(ch) == ch \in {"_", " "}

\* the positions where a word of the name begins
WordStarts(s) ==
    {i \in 1..Len(s) : ~IsSeparator(s[i]) /\ (i = 1 \/ IsSeparator(s[i - 1]))}

\* the word of the name that begins at position i
WordAt(s, i) ==
    SubSeq(s, i, CHOOSE j \in i..Len(s) :
                    /\ \A k \in i..j : ~IsSeparator(s[k])
                    /\ (j = Len(s) \/ IsSeparator(s[j + 1])))

\* the word as the title-cased header shows it: "the", "for" and "by" in
\* small letters unless first, every other word with a capital first letter
TitleWord(s, i) ==
    LET w == WordAt(s, i)
        small == [k \in 1..Len(w) |-> LowerChar(w[k])]
    IN  IF i # 1 /\ (\E j \in WordStarts(s) : j < i)
             /\ small \in {<<"t", "h", "e">>, <<"f", "o", "r">>, <<"b", "y">>}
        THEN small
        ELSE <<UpperChar(w[1])>> \o SubSeq(small, 2, Len(small))

\* header h is the title-cased name s: no underscore, and its words are the
\* title-cased words of s in the same order
IsTitleCased(h, s) ==
    /\ \A i \in 1..Len(h) : h[i] # "_"
    /\ Cardinality(WordStarts(h)) = Cardinality(WordStarts(s))
    /\ \A i \in WordStarts(h) :
         \E j \in WordStarts(s) :
            /\ Cardinality({k \in WordStarts(h) : k < i})
                 = Cardinality({k \in WordStarts(s) : k < j})
            /\ WordAt(h, i) = TitleWord(s, j)

\* in every written sheet the columns in `renamed` carry their label and
\* the other columns their title-cased name
HeadersAsLabelled(renamed) ==
    \A m \in 1..12 :
        LET f == OutFilename(m, year)
        IN  (program \in {"v09", "draft"} /\ f \in DOMAIN headers) =>
               /\ Len(headers[f]) = Len(SheetColumns(m))
               /\ \A i \in 1..Len(headers[f]) :
                    LET col == SheetColumns(m)[i]
                    IN  IF col \in renamed
                        THEN headers[f][i] = LabelOf(col)
                        ELSE col \notin RenamedColumns =>
                                IsTitleCased(headers[f][i], col)

\* C25: in the written report the renamed columns appear exactly as their
\* labels ("For Sequence #", "Sequence #", "Filename of Image for the UT Tax
\* Comm.", "Txn Invoice No", "Txn Gross Amt"), and the remaining headers are
\* title-cased: underscores become spaces and every word is capitalized
\* except "the", "for" and "by", which are in small letters unless first.
C25_HeadersAsLabelled == HeadersAsLabelled(RenamedColumns)

\* C25 without the image-filename label: the four other labels appear as
\* they are and the remaining headers are title-cased
C25_OtherLabels_HeadersAsLabelled == HeadersAsLabelled(RenamedColumns \ {TAX_COMM_IMAGE})

\* a sheet whose ledger column "gl_for_code" is headed "Gl for Code" and
\* whose invoice column is headed "Txn Invoice No"
C25_OtherLabels_Witness ==
    /\ program \in {"v09", "draft"}
    /\ jib_file.extra = <<<<"g", "l", "_", "f", "o", "r", "_", "c", "o", "d", "e">>>>
    /\ \E f \in DOMAIN headers :
         /\ \E i \in 1..Len(headers[f]) :
              headers[f][i] = <<"G", "l", " ", "f", "o", "r", " ", "C", "o", "d", "e">>
         /\ \E i \in 1..Len(headers[f]) : headers[f][i] = INVOICE_LABEL

\* the image-filename column is headed "Filename Of Image for the Ut Tax Comm."
C25_ImageLabelWitness ==
    /\ program \in {"v09", "draft"}
    /\ \E f \in DOMAIN headers :
         \E i \in 1..Len(headers[f]) :
            headers[f][i] =
                <<"F", "i", "l", "e", "n", "a", "m", "e", " ", "O", "f", " ", "I", "m",
                  "a", "g", "e", " ", "f", "o", "r", " ", "t", "h", "e", " ", "U", "t",
                  " ", "T", "a", "x", " ", "C", "o", "m", "m", ".">>

----------------------------------------------------------------------------
(* C26 *)

A1_PADDED == <<" ", "A", "1", " ">>

\* ledgers of February 2024 that write invoice A1 as "A1", "A1.0" and " A1 ",
\* with an image cross-reference that names it "A1" or "A1.0"
NormInputs ==
    Inputs(Tables(LedgerRows({A1, A1_DOT0, A1_PADDED}, {ACME},
                             {Num(2000), Num(1200), Num(900)}, {Date(2, 2024)}),
                  MaxRows),
           {AllCols}, {IrFile(<<IrRow(i, Str(IMG_A), NaN)>>, 4) : i \in {A1, A1_DOT0}},
           {<<2>>}, {2024})

NormInit == InitWith(NormInputs)

NormNext ==
    \/ V09Load \/ V09Month \/ V09Finish
    \/ SqlLoad \/ SqlMonth \/ SqlFinish

NormSpec == NormInit /\ [][NormNext]_vars

\* an invoice number with the blanks around it and one final ".0" taken off
Trimmed(s) ==
    LET b == {i \in 1..Len(s) : s[i] # " "}
        t == IF b = {} THEN <<>>
             ELSE SubSeq(s, CHOOSE i \in b : \A j \in b : i <= j,
                            CHOOSE i \in b : \A j \in b : j <= i)
    IN  IF Len(t) >= 2 /\ t[Len(t) - 1] = "." /\ t[Len(t)] = "0"
        THEN SubSeq(t, 1, Len(t) - 2)
        ELSE t

\* the rows of the ledger file (by index) that name invoice v
LedgerRowsOf(v) == {i \in 1..Len(jib_file.rows) : Trimmed(jib_file.rows[i].inv) = v}

RECURSIVE GrossOf(_)
\* the sum of the amounts of the ledger rows of the index set
GrossOf(I) ==
    IF I = {} THEN 0
    ELSE LET i == CHOOSE x \in I : TRUE
         IN  jib_file.rows[i].gross[2] + GrossOf(I \ {i})

\* no two rows of the ledger file are alike in every column
NoTwins == \A i, j \in 1..Len(jib_file.rows) : jib_file.rows[i] = jib_file.rows[j] => i = j

\* the rows of the report of month m (by index) that belong to invoice v
ReportRowsOf(m, v) == {j \in 1..Len(Report(m)) : Trimmed(Report(m)[j].inv) = v}

NormalisedMatching(progs) ==
    (program \in progs /\ pc = "done" /\ NoTwins) =>
        \A v \in {Trimmed(jib_file.rows[i].inv) : i \in 1..Len(jib_file.rows)} :
           LET total == GrossOf(LedgerRowsOf(v))
           IN  IF total >= DollarThreshold
               THEN /\ Written(2)
                    /\ Cardinality(ReportRowsOf(2, v)) = Cardinality(LedgerRowsOf(v))
                    /\ \A j \in ReportRowsOf(2, v) :
                          /\ Report(2)[j].Inv_Total = total
                          /\ \A h \in ReportRowsOf(2, v) :
                                Report(2)[h].For_Seq_No = Report(2)[j].For_Seq_No
                          /\ Trimmed(ir_file.rows[1].inv) = v =>
                                /\ Report(2)[j].imgs[1] = Str(IMG_A)
                                /\ Report(2)[j].is_first_row =>
                                      /\ Report(2)[j].links[1][1][1] = "link"
                                      /\ Report(2)[j].links[1][1][5] = IMG_A
               ELSE Written(2) => ReportRowsOf(2, v) = {}

\* C26: invoice numbers are normalised the same way on both sides before
\* matching (blanks around them trimmed, one final ".0" removed): a ledger
\* invoice "A1.0" or " A1 " is matched to the image reference of invoice
\* "A1" and gets its hyperlinks, and ledger rows "A1" and "A1.0" are
\* aggregated as one invoice.
C26_NormalisedMatching == NormalisedMatching({"v09", "sql"})

\* C26 for the dataframe script alone
C26_V09_NormalisedMatching == NormalisedMatching({"v09"})

\* ledger rows "A1.0" of 1 200 and " A1 " of 900 and the image reference of
\* "A1": both rows are reported with a total of 2 100 and the image, the
\* first with its hyperlink
C26_V09_Witness ==
    /\ program = "v09" /\ pc = "done" /\ Written(2)
    /\ Len(jib_file.rows) = 2
    /\ \E i, j \in 1..2 :
          /\ jib_file.rows[i].inv = A1_DOT0 /\ jib_file.rows[i].gross = Num(1200)
          /\ jib_file.rows[j].inv = A1_PADDED /\ jib_file.rows[j].gross = Num(900)
    /\ ir_file.rows[1].inv = A1
    /\ Len(Report(2)) = 2
    /\ \A j \in 1..2 : Report(2)[j].Inv_Total = 2100 /\ Report(2)[j].imgs[1] = Str(IMG_A)
    /\ Report(2)[1].links[1][1][1] = "link"

====
